---- MODULE Spec2Model ----
(***************************************************************************)
(* GovernsAI TypeScript SDK: the retry executor (withRetry), the transport *)
(* error mapping (HTTPClient.request), and the confirmation client's       *)
(* status fetch, polling loop and waitForApproval promise.                 *)
(*                                                                         *)
(* One API call is followed per behaviour.  Time is the integer clock      *)
(* `now` (milliseconds); it advances while a transport call is in flight   *)
(* and while a timer (backoff sleep, poll interval) runs.  Optional        *)
(* JavaScript values are sequences of length 0 (undefined) or 1.           *)
(***************************************************************************)
EXTENDS Integers, Sequences, FiniteSets, TLC

VARIABLES
    now,        \* Date.now()
    config,     \* ConfirmationClient.config (retries, retryDelay)
    call,       \* the API call of this behaviour and its arguments
    pc,         \* where that call is: idle, awaiting, sleeping, returned, thrown
    outcome,    \* what the call returned / resolved with, or threw / rejected with
    rx,         \* the withRetry execution in progress (or the last one)
    hist,       \* observations: fetches, callback log, sleeps, settlements
    batch,      \* pollBatchConfirmations: ids, this tick's pending ids, results
    sdk,        \* the GovernsAIClient object: its config, transport, feature clients
    feat,       \* a feature-client method call: request, lookups, batch items
    rx2         \* the withRetry of errors.ts run beside rx on the same outcomes

vars == <<now, config, call, pc, outcome, rx, hist, batch, sdk, feat, rx2>>

-----------------------------------------------------------------------------
(* Bounds of the model *)

MaxAttempts == 3        \* largest maxRetries / config.retries explored
PollInterval == 100     \* the poll interval explored (ms)
PollTimeout == 250      \* the finite poll timeout explored (ms)
FetchLatency == 60      \* a transport call takes 0 or this many ms
BaseDelay == 1000       \* the retryDelay explored besides "unset"
BatchTimeout == 150     \* the shared timeout of a batch poll explored (ms)
LargeDelay == 16000     \* a retryDelay whose second backoff exceeds the maximum
MaxUpdates == 1         \* updateConfig calls followed on one client
MaxItems == 2          \* items given to a batch method

(* Program constants *)

MaxDelay == 30000       \* getRetryDelay: Math.min(..., 30000)
DefaultRetries == 3     \* this.config.retries || 3
DefaultRetryDelay == 1000   \* this.config.retryDelay || 1000
DefaultTimeout == 30000     \* mergeConfig: timeout: 30000

\* Math.random() * 0.1, in thousandths: a value of [0, 0.1)
JitterSamples == {0, 50, 99}

-----------------------------------------------------------------------------
(* Optional values *)

None == <<>>
Some(x) == <<x>>
IsSome(o) == o # <<>>
Get(o) == o[1]

RECURSIVE Pow2(_)
Pow2(n) == IF n <= 0 THEN 1 ELSE 2 * Pow2(n - 1)

Min(a, b) == IF a <= b THEN a ELSE b

-----------------------------------------------------------------------------
(* Error taxonomy: errors.ts *)

\* class X extends GovernsAIError; GovernsAIError extends Error
Superclasses(cls) ==
    CASE cls = "Error" -> {"Error"}
      [] cls = "GovernsAIError" -> {"GovernsAIError", "Error"}
      [] OTHER -> {cls, "GovernsAIError", "Error"}

InstanceOf(error, cls) == cls \in Superclasses(error.cls)

\* new GovernsAIError(message, statusCode, response, retryable) and subclasses.
\* `origin` stands for the object's identity: the construction site and the
\* number of the operation invocation that led to it.
NewError(cls, message, statusCode, response, retryable, origin) ==
    [cls |-> cls, message |-> message, statusCode |-> statusCode,
     response |-> response, retryable |-> retryable, origin |-> origin]

RetryableStatuses == {429, 500, 502, 503, 504}

isRetryableStatusAnyServerError(status) ==
    IF ~IsSome(status) THEN FALSE ELSE Get(status) = 429 \/ Get(status) >= 500

isRetryableStatus(status) ==
    IF ~IsSome(status) THEN FALSE ELSE Get(status) \in RetryableStatuses

createConfirmationError(message, statusCode, response, origin) ==
    NewError("ConfirmationError", message, statusCode, response,
             Some(isRetryableStatus(statusCode)), origin)

\* createPrecheckError, createConfirmationError, createBudgetError,
\* createToolError, createAnalyticsError: the same body for their class
FeatureErrorClasses ==
    {"PrecheckError", "ConfirmationError", "BudgetError", "ToolError", "AnalyticsError"}

createFeatureError(cls, message, statusCode, response, origin) ==
    NewError(cls, message, statusCode, response,
             Some(isRetryableStatus(statusCode)), origin)

createAuthenticationError(message, statusCode, response, origin) ==
    NewError("AuthenticationError", message, statusCode, response, Some(FALSE), origin)

\* response is [status, data, statusText]; data is None or Some([error |-> message])
createErrorFromResponse(response, origin) ==
    LET status == response.status
        message == IF IsSome(response.data) THEN Get(response.data).error
                   ELSE <<"HTTP", ToString(status), response.statusText>>
        retryable == isRetryableStatus(Some(status))
    IN  CASE status \in {401, 403} ->
               NewError("AuthenticationError", message, Some(status), Some(response),
                        Some(FALSE), origin)
          [] status = 404 ->
               NewError("GovernsAIError", message, Some(status), Some(response),
                        Some(FALSE), origin)
          [] status \in {429, 500, 502, 503, 504} ->
               NewError("GovernsAIError", message, Some(status), Some(response),
                        Some(TRUE), origin)
          [] OTHER ->
               NewError("GovernsAIError", message, Some(status), Some(response),
                        Some(retryable), origin)

\* message.includes(keyword), on messages kept as sequences of words
Includes(message, word) == \E i \in 1..Len(message) : message[i] = word

NetworkKeywords == {"fetch", "network", "timeout", "ECONNRESET", "ENOTFOUND"}

isRetryableError(error) ==
    IF InstanceOf(error, "GovernsAIError")
    THEN error.retryable = Some(TRUE)
    ELSE \E w \in NetworkKeywords : Includes(error.message, w)

\* enum ErrorCategory and categorizeError
categorizeError(error) ==
    LET status == IF IsSome(error.statusCode) THEN Get(error.statusCode) ELSE 0
    IN  IF InstanceOf(error, "AuthenticationError") THEN "authentication"
        ELSE IF InstanceOf(error, "GovernsAIError") /\ status = 401 THEN "authentication"
        ELSE IF InstanceOf(error, "GovernsAIError") /\ status = 403 THEN "authorization"
        ELSE IF InstanceOf(error, "GovernsAIError") /\ status \in {400, 422}
        THEN "validation"
        ELSE IF InstanceOf(error, "GovernsAIError") /\ status = 429 THEN "rate_limit"
        ELSE IF InstanceOf(error, "GovernsAIError") /\ status >= 500 THEN "server_error"
        ELSE IF InstanceOf(error, "GovernsAIError") /\ status >= 400 THEN "client_error"
        ELSE IF Includes(error.message, "fetch") \/ Includes(error.message, "network")
        THEN "network"
        ELSE "unknown"

getRetryDelayUncapped(attempt, baseDelay, random) ==
    LET exponentialDelay == baseDelay * Pow2(attempt - 1)
    IN  exponentialDelay + (random * exponentialDelay) \div 1000

\* random is Math.random() * 0.1 in thousandths: 0..99
getRetryDelay(attempt, baseDelay, random) ==
    LET exponentialDelay == baseDelay * Pow2(attempt - 1)
        jitter == (random * exponentialDelay) \div 1000
    IN  Min(exponentialDelay + jitter, MaxDelay)

-----------------------------------------------------------------------------
(* Retry executor: withRetry in errors.ts and utils.ts *)

\* The retryCondition closures the clients build:
\*   error instanceof <Class> ? error.retryable === true : false
RetryConditions == {"GovernsAIError", "ConfirmationError"}

retryCondition(cond, error) ==
    IF InstanceOf(error, cond) THEN error.retryable = Some(TRUE) ELSE FALSE

isLastAttemptOffByOne(attempt, maxRetries) == attempt + 1 >= maxRetries

\* if (attempt === config.maxRetries) break;
isLastAttempt(attempt, maxRetries) == attempt = maxRetries

ExhaustedErrorKeepsClassification(context, maxRetries, lastError) ==
    NewError("GovernsAIError",
             <<context, "failed after", ToString(maxRetries), "attempts:">>
                 \o (IF IsSome(lastError) THEN Get(lastError).message
                                          ELSE <<"Unknown error">>),
             IF IsSome(lastError) THEN Get(lastError).statusCode ELSE None,
             None,
             IF IsSome(lastError) THEN Get(lastError).retryable ELSE Some(FALSE),
             <<"withRetry", 0>>)

\* `${context} failed after ${maxRetries} attempts: ${lastError?.message || 'Unknown error'}`
ExhaustedError(context, maxRetries, lastError) ==
    NewError("GovernsAIError",
             <<context, "failed after", ToString(maxRetries), "attempts:">>
                 \o (IF IsSome(lastError) THEN Get(lastError).message
                                          ELSE <<"Unknown error">>),
             None, None, Some(FALSE), <<"withRetry", 0>>)

nonRetryableThrownWrapped(context, maxRetries, error) ==
    ExhaustedError(context, maxRetries, Some(error))

\* if (!config.retryCondition(error)) throw error;
nonRetryableThrown(context, maxRetries, error) == error

RxIdle ==
    [pc |-> "idle", maxRetries |-> 0, retryDelay |-> 0, cond |-> "GovernsAIError",
     context |-> "operation", attempt |-> 0, calls |-> 0, lastError |-> None,
     result |-> None, thrown |-> None, sleeps |-> <<>>, warns |-> <<>>,
     failures |-> <<>>, raised |-> 0, slept |-> 0]

consoleWarnDropped(warns, entry) == warns

\* console.warn(`${context} failed (attempt ${attempt}/${maxRetries}),
\*               retrying in ${delay}ms:`, error)
consoleWarn(warns, entry) == Append(warns, entry)

sleepNotAwaited(r) ==
    [r EXCEPT !.pc = "inflight", !.attempt = @ + 1, !.calls = @ + 1]

\* await sleep(delay): the execution is suspended until the timer fires
awaitSleep(r) == [r EXCEPT !.pc = "backoff"]

\* withRetry entered: the loop test of attempt 1, then operation() or the
\* final throw when the loop body never runs.
withRetryEnter(maxRetries, retryDelay, cond, context) ==
    LET r == [RxIdle EXCEPT !.maxRetries = maxRetries, !.retryDelay = retryDelay,
                            !.cond = cond, !.context = context, !.attempt = 1]
    IN  IF 1 <= maxRetries
        THEN [r EXCEPT !.pc = "inflight", !.calls = 1]
        ELSE [r EXCEPT !.pc = "thrown", !.raised = 1,
                       !.thrown = Some(ExhaustedError(context, maxRetries, None))]

\* operation() settled: `return await operation()` or the catch block.
\* res is [value |-> optional, error |-> optional]; random is the jitter draw.
withRetrySettled(r, res, random) ==
    IF ~IsSome(res.error)
    THEN [r EXCEPT !.pc = "returned", !.result = res.value]
    ELSE LET error == Get(res.error)
             f == [r EXCEPT !.lastError = Some(error),
                            !.failures = Append(@, error)]
         IN  IF ~retryCondition(r.cond, error)
             THEN [f EXCEPT !.pc = "thrown", !.raised = @ + 1,
                            !.thrown = Some(nonRetryableThrown(r.context,
                                                               r.maxRetries, error))]
             ELSE IF isLastAttempt(r.attempt, r.maxRetries)
             THEN [f EXCEPT !.pc = "thrown", !.raised = @ + 1,
                            !.thrown = Some(ExhaustedError(r.context, r.maxRetries,
                                                           Some(error)))]
             ELSE LET delay == getRetryDelay(r.attempt, r.retryDelay, random)
                  IN  awaitSleep(
                        [f EXCEPT !.sleeps = Append(@, delay),
                                  !.warns = consoleWarn(@, [attempt |-> r.attempt,
                                                            total |-> r.maxRetries,
                                                            delay |-> delay,
                                                            context |-> r.context,
                                                            error |-> error])])

\* sleep(delay) resolved: attempt++, the loop test, operation() again
withRetryWoken(r) ==
    LET a == r.attempt + 1
    IN  IF a <= r.maxRetries
        THEN [r EXCEPT !.pc = "inflight", !.attempt = a, !.calls = @ + 1,
                       !.slept = @ + 1]
        ELSE [r EXCEPT !.pc = "thrown", !.attempt = a, !.raised = @ + 1,
                       !.slept = @ + 1,
                       !.thrown = Some(ExhaustedError(r.context, r.maxRetries,
                                                      r.lastError))]

-----------------------------------------------------------------------------
(* withRetry of errors.ts, the executor the feature clients import *)

\* new GovernsAIError(`${context} failed after ${config.maxRetries} attempts:
\*                     ${lastError?.message || 'Unknown error'}`,
\*                    undefined, undefined, false)
errorsExhaustedError(context, maxRetries, lastError) ==
    [cls |-> "GovernsAIError",
     message |-> <<context, "failed after", ToString(maxRetries), "attempts:">>
                     \o (IF lastError = None THEN <<"Unknown error">>
                         ELSE Get(lastError).message),
     statusCode |-> None, response |-> None, retryable |-> Some(FALSE),
     origin |-> <<"errors.ts withRetry", 0>>]

errorsWithRetryEnterInvokesFirst(maxRetries, retryDelay, cond, context) ==
    [RxIdle EXCEPT !.maxRetries = maxRetries, !.retryDelay = retryDelay,
                   !.cond = cond, !.context = context, !.attempt = 1,
                   !.pc = "inflight", !.calls = 1]

\* let lastError; for (let attempt = 1; attempt <= config.maxRetries; ...)
\*     try { return await operation(); }
errorsWithRetryEnter(maxRetries, retryDelay, cond, context) ==
    LET r == [RxIdle EXCEPT !.maxRetries = maxRetries, !.retryDelay = retryDelay,
                            !.cond = cond, !.context = context, !.attempt = 1]
    IN  IF r.attempt <= r.maxRetries
        THEN [r EXCEPT !.pc = "inflight", !.calls = @ + 1]
        ELSE [r EXCEPT !.pc = "thrown", !.raised = @ + 1,
                       !.thrown = Some(errorsExhaustedError(context, maxRetries,
                                                            r.lastError))]

\* operation() settled: the return, or the catch block up to await sleep(delay)
errorsWithRetrySettled(r, res, random) ==
    IF res.error = None
    THEN [r EXCEPT !.pc = "returned", !.result = res.value]
    ELSE LET error == Get(res.error)
             caught == [r EXCEPT !.lastError = res.error,
                                 !.failures = Append(@, error)]
         IN  IF ~retryCondition(r.cond, error)
             THEN [caught EXCEPT !.pc = "thrown", !.raised = @ + 1,
                                 !.thrown = res.error]
             ELSE IF r.attempt = r.maxRetries
             THEN [caught EXCEPT !.pc = "thrown", !.raised = @ + 1,
                                 !.thrown = Some(errorsExhaustedError(
                                     r.context, r.maxRetries, res.error))]
             ELSE LET delay == getRetryDelay(r.attempt, r.retryDelay, random)
                  IN  [caught EXCEPT
                         !.warns = Append(@, [attempt |-> r.attempt,
                                              total |-> r.maxRetries,
                                              delay |-> delay,
                                              context |-> r.context,
                                              error |-> error]),
                         !.sleeps = Append(@, delay),
                         !.pc = "backoff"]

\* await sleep(delay) resolved: attempt++, the loop test, operation() again
errorsWithRetryWoken(r) ==
    LET woken == [r EXCEPT !.attempt = @ + 1, !.slept = @ + 1]
    IN  IF woken.attempt <= woken.maxRetries
        THEN [woken EXCEPT !.pc = "inflight", !.calls = @ + 1]
        ELSE [woken EXCEPT !.pc = "thrown", !.raised = @ + 1,
                           !.thrown = Some(errorsExhaustedError(
                               r.context, r.maxRetries, r.lastError))]

-----------------------------------------------------------------------------
(* Configuration: mergeConfig, validateConfig (utils.ts), GovernsAIClient *)

\* A GovernsAIConfig / Partial<GovernsAIConfig>: every field is optional
ConfigFields == {"apiKey", "baseUrl", "orgId", "timeout", "retries", "retryDelay"}

\* { timeout: 30000, retries: 3, retryDelay: 1000 } of mergeConfig
MergeDefaults ==
    [f \in ConfigFields |->
        CASE f = "timeout" -> Some(DefaultTimeout)
          [] f = "retries" -> Some(DefaultRetries)
          [] f = "retryDelay" -> Some(DefaultRetryDelay)
          [] OTHER -> None]

\* { ...a, ...b }
Spread(a, b) == [f \in ConfigFields |-> IF IsSome(b[f]) THEN b[f] ELSE a[f]]

mergeConfig(defaultConfig, userConfig) ==
    Spread(Spread(MergeDefaults, defaultConfig), userConfig)

\* JavaScript truthiness of an optional string and of an optional number
TruthyString(o) == IsSome(o) /\ Get(o) # ""

Truthy(o) == IsSome(o) /\ Get(o) # 0

\* The strings `new URL(url)` accepts, among those explored
ValidUrls == {"https://api.governs.ai", "https://eu.governs.ai", "http://localhost:3002"}

isValidUrl(url) == url \in ValidUrls

\* validateConfig: the message of the GovernsAIError it throws, if any
validateConfig(c) ==
    IF ~TruthyString(c["apiKey"]) THEN Some(<<"API key is required">>)
    ELSE IF TruthyString(c["baseUrl"]) /\ ~isValidUrl(Get(c["baseUrl"]))
    THEN Some(<<"Invalid baseUrl format">>)
    ELSE IF Truthy(c["timeout"])
            /\ (Get(c["timeout"]) < 1000 \/ Get(c["timeout"]) > 300000)
    THEN Some(<<"Timeout must be between 1000ms and 300000ms">>)
    ELSE IF Truthy(c["retries"])
            /\ (Get(c["retries"]) < 0 \/ Get(c["retries"]) > 10)
    THEN Some(<<"Retries must be between 0 and 10">>)
    ELSE None

ConfigError(message) ==
    NewError("GovernsAIError", message, None, None, None, <<"validateConfig", 0>>)

\* The two GovernsAIClient classes of the repository
ClientVariants == {"src/unnamed/part_005", "src/src/client.ts"}

\* The first argument the constructor gives mergeConfig
constructorDefaults(variant, userConfig) ==
    [f \in ConfigFields |->
        CASE f = "apiKey" -> userConfig["apiKey"]
          [] f = "orgId" -> userConfig["orgId"]
          [] f = "baseUrl" -> IF variant = "src/src/client.ts"
                              THEN Some("http://localhost:3002")
                              ELSE userConfig["baseUrl"]
          [] f = "timeout" -> Some(DefaultTimeout)
          [] f = "retries" -> Some(DefaultRetries)
          [] f = "retryDelay" -> Some(DefaultRetryDelay)]

\* The feature clients each class creates
FeatureNames(variant) ==
    {"precheck", "confirmation", "budget", "tools", "analytics"}
        \cup (IF variant = "src/unnamed/part_005" THEN {"context"} ELSE {})

\* new HTTPClient(config); n tells the transports of one client apart
NewHTTPClient(c, n) == [config |-> c, n |-> n]

\* new XClient(httpClient, config): ContextClient keeps no config,
\* PrecheckClient keeps a second transport, platformHttp, for its lookups
NewFeatureClient(name, httpClient, c) ==
    [config |-> IF name = "context" THEN None ELSE Some(c),
     httpClient |-> httpClient,
     platformHttp |-> IF name = "precheck" THEN Some(httpClient) ELSE None]

\* XClient.updateConfig(config)
featureUpdateConfig(name, fc, c) ==
    IF name = "context" THEN fc ELSE [fc EXCEPT !.config = Some(c)]

SdkNone ==
    [variant |-> "none", status |-> "none", input |-> None, error |-> None,
     config |-> None, httpClient |-> None, feature |-> <<>>, transports |-> 0,
     updates |-> 0, lastUpdate |-> None, lastCall |-> None]

\* new GovernsAIClient(config)
constructor(variant, userConfig) ==
    LET mergedConfig == mergeConfig(constructorDefaults(variant, userConfig), userConfig)
        invalid == validateConfig(mergedConfig)
        s == [SdkNone EXCEPT !.variant = variant, !.input = Some(userConfig)]
        httpClient == NewHTTPClient(mergedConfig, 1)
    IN  IF IsSome(invalid)
        THEN [s EXCEPT !.status = "threw", !.error = Some(ConfigError(Get(invalid)))]
        ELSE [s EXCEPT !.status = "constructed",
                       !.config = Some(mergedConfig),
                       !.httpClient = Some(httpClient),
                       !.transports = 1,
                       !.feature = [name \in FeatureNames(variant) |->
                                       NewFeatureClient(name, httpClient, mergedConfig)]]

\* What updateConfig may change: config, transport, feature clients
ObjectGraph(s) == [config |-> s.config, httpClient |-> s.httpClient, feature |-> s.feature]

\* updateConfig after validateConfig passed: the assignments
updateConfigCommit(s, mergedConfig) ==
    LET httpClient == NewHTTPClient(mergedConfig, s.transports + 1)
    IN  [s EXCEPT !.config = Some(mergedConfig),
                  !.httpClient = Some(httpClient),
                  !.transports = @ + 1,
                  !.feature = [name \in DOMAIN s.feature |->
                      LET fc == featureUpdateConfig(name, s.feature[name], mergedConfig)
                      IN  IF s.variant = "src/unnamed/part_005"
                          THEN [fc EXCEPT !.httpClient = httpClient]
                          ELSE fc]]

updateConfigValidatesLast(s, newConfig) ==
    LET mergedConfig == mergeConfig(Get(s.config), newConfig)
        invalid == validateConfig(mergedConfig)
        entered == [s EXCEPT !.updates = @ + 1,
                             !.lastUpdate = Some([newConfig |-> newConfig,
                                                  before |-> ObjectGraph(s),
                                                  error |-> None])]
        committed == updateConfigCommit(entered, mergedConfig)
    IN  IF IsSome(invalid)
        THEN [committed EXCEPT !.lastUpdate =
                 Some([Get(@) EXCEPT !.error = Some(ConfigError(Get(invalid)))])]
        ELSE committed

\* GovernsAIClient.updateConfig(newConfig)
updateConfig(s, newConfig) ==
    LET mergedConfig == mergeConfig(Get(s.config), newConfig)
        invalid == validateConfig(mergedConfig)
        entered == [s EXCEPT !.updates = @ + 1,
                             !.lastUpdate = Some([newConfig |-> newConfig,
                                                  before |-> ObjectGraph(s),
                                                  error |-> None])]
    IN  IF IsSome(invalid)
        THEN [entered EXCEPT !.lastUpdate =
                 Some([Get(@) EXCEPT !.error = Some(ConfigError(Get(invalid)))])]
        ELSE updateConfigCommit(entered, mergedConfig)

\* x || d on an optional number
OrElse(o, d) == IF Truthy(o) THEN Get(o) ELSE d

RetryConfigOnlyWhenUnset(c) ==
    [maxRetries |-> IF IsSome(c["retries"]) THEN Get(c["retries"]) ELSE DefaultRetries,
     retryDelay |-> IF IsSome(c["retryDelay"]) THEN Get(c["retryDelay"])
                    ELSE DefaultRetryDelay]

\* const retryConfig = { maxRetries: this.config.retries || 3,
\*                       retryDelay: this.config.retryDelay || 1000, ... }
RetryConfigFrom(c) ==
    [maxRetries |-> OrElse(c["retries"], DefaultRetries),
     retryDelay |-> OrElse(c["retryDelay"], DefaultRetryDelay)]

-----------------------------------------------------------------------------
(* Feature clients: PrecheckClient, ToolClient, ConfirmationClient *)

\* The fields of a PrecheckRequest the model keeps
RequestFields == {"tool", "raw_text", "policy_config", "tool_config",
                  "budget_context", "userId"}

\* The methods of the feature clients that send one request
Methods == {"checkRequest", "executeTool", "createConfirmation"}

\* The error class of the client a method belongs to
ErrorClassOf(method) ==
    CASE method = "checkRequest" -> "PrecheckError"
      [] method = "executeTool" -> "ToolError"
      [] method = "createConfirmation" -> "ConfirmationError"

\* The context label the method gives to this.withRetry
ContextOf(method) ==
    CASE method = "checkRequest" -> "precheck request"
      [] method = "executeTool" -> "execute tool"
      [] method = "createConfirmation" -> "create confirmation"

\* The prefix the method's catch block puts before the underlying message
PrefixOf(method) ==
    CASE method = "checkRequest" -> <<"Precheck request failed:">>
      [] method = "executeTool" -> <<"Tool execution failed:">>
      [] method = "createConfirmation" -> <<"Failed to create confirmation:">>

\* The prefix the batch method's catch block puts before the item's message
BatchPrefixOf(method) ==
    CASE method = "checkRequest" -> <<"Precheck failed:">>
      [] method = "executeTool" -> <<"Tool execution failed:">>
      [] method = "createConfirmation" -> <<"Confirmation creation failed:">>

\* The configuration the feature client was constructed with
FeatureConfig ==
    [f \in ConfigFields |->
        CASE f = "retries" -> Some(2)
          [] f = "retryDelay" -> Some(1000)
          [] f = "timeout" -> None
          [] OTHER -> Some("set")]

\* The platform lookups of enrichPrecheckRequest, in the order they are pushed
LookupOrder == <<"policies", "tool", "budget">>

\* The request field each lookup fills in
FieldOf(lookup) ==
    CASE lookup = "policies" -> "policy_config"
      [] lookup = "tool" -> "tool_config"
      [] lookup = "budget" -> "budget_context"

\* const needsPolicy = !request.policy_config;
needsPolicy(request) == ~IsSome(request["policy_config"])

\* const needsTool = !request.tool_config && !!request.tool;
needsTool(request) == ~IsSome(request["tool_config"]) /\ IsSome(request["tool"])

\* const needsBudget = !request.budget_context;
needsBudget(request) == ~IsSome(request["budget_context"])

needsEveryLookup(lookup, request) == TRUE

\* Whether enrichPrecheckRequest pushes the lookup
needs(lookup, request) ==
    CASE lookup = "policies" -> needsPolicy(request)
      [] lookup = "tool" -> needsTool(request)
      [] lookup = "budget" -> needsBudget(request)

\* tasks, in push order
Tasks(request) == SelectSeq(LookupOrder, LAMBDA l : needs(l, request))

\* What a platform lookup may settle with: a body holding the value, an
\* empty body (null), or a rejection
LookupOutcomes == {"value", "empty", "rejected"}

\* transformPolicyConfig(raw): a non-object comes back as it is, an object is
\* rebuilt in the precheck schema
transformPolicyConfig(raw) ==
    IF IsSome(raw) THEN Some("transformed " \o Get(raw)) ELSE raw

\* The .then callback of a lookup, run when platformHttp.get resolved with
\* the body resp (None is a null body). present tells whether the field is
\* assigned at all.
lookupThen(lookup, resp) ==
    CASE lookup = "policies" ->
           [present |-> TRUE, value |-> transformPolicyConfig(resp)]
      [] lookup = "tool" -> [present |-> IsSome(resp), value |-> resp]
      [] lookup = "budget" -> [present |-> IsSome(resp), value |-> resp]

\* The body the platform returns for a lookup that has a value
LookupBody(lookup) == Some("platform " \o FieldOf(lookup))

\* The values of a result: what the transport resolved with, or the error
\* marker a batch method pushes
Response(n) == [kind |-> "response", n |-> n, message |-> <<>>]

Marker(method, message) ==
    [kind |-> CASE method = "checkRequest" -> "decision block, metadata.error true"
                [] method = "executeTool" -> "success false, error"
                [] method = "createConfirmation" -> "success false, status error",
     n |-> 0,
     message |-> BatchPrefixOf(method) \o message]

FeatNone ==
    [method |-> "none", batch |-> FALSE, items |-> <<>>, idx |-> 0,
     results |-> <<>>, request |-> None, enriched |-> None,
     tasks |-> <<>>, pending |-> {}, settled |-> <<>>,
     sent |-> <<>>, sentPending |-> <<>>, posts |-> 0, gets |-> 0,
     phase |-> "idle", userId |-> None, itemLog |-> <<>>]

\* What one step of a feature-client call leaves behind
FeatStep(f, r, p, o) == [feat |-> f, rx |-> r, pc |-> p, outcome |-> o]

\* userId ? { ...request, userId } : request
withUser(request, userId) ==
    IF IsSome(userId) THEN [request EXCEPT !["userId"] = userId] ELSE request

\* this.httpClient.post(url, body) is called by the operation of withRetry
httpPost(f, body) ==
    [f EXCEPT !.sent = Append(@, body),
              !.sentPending = Append(@, f.pending),
              !.posts = @ + 1]

\* try { await this.withRetry(() => this.httpClient.post(url, body), context)
postStart(f, body) ==
    LET policy == RetryConfigFrom(FeatureConfig)
    IN  FeatStep(httpPost([f EXCEPT !.phase = "post", !.enriched = Some(body)], body),
                 withRetryEnter(policy.maxRetries, policy.retryDelay,
                                ErrorClassOf(f.method), ContextOf(f.method)),
                 "awaiting", [value |-> None, error |-> None])

\* enrichPrecheckRequest up to `await Promise.all(tasks)`: every needed
\* lookup is started; with nothing needed the request itself is returned
enrichStart(f, request) ==
    LET tasks == Tasks(request)
    IN  IF tasks = <<>>
        THEN postStart(f, request)
        ELSE FeatStep([f EXCEPT !.phase = "enrich",
                                !.enriched = Some(request),
                                !.tasks = tasks,
                                !.pending = {tasks[i] : i \in 1..Len(tasks)},
                                !.gets = @ + Len(tasks)],
                      RxIdle, "awaiting", [value |-> None, error |-> None])

\* The method is called with one input
methodStart(f, input, userId) ==
    LET g == [f EXCEPT !.request = Some(input), !.userId = userId,
                       !.enriched = None, !.tasks = <<>>, !.pending = {},
                       !.settled = <<>>, !.sent = <<>>, !.sentPending = <<>>]
    IN  IF f.method = "checkRequest"
        THEN enrichStart(g, withUser(input, userId))
        ELSE postStart(g, input)

joinedOnFirstSettled(f) == TRUE

\* await Promise.all(tasks) resolves: every task has settled
joined(f) == f.pending = {}

lookupRejectionAbandonsEnrichment(f, lookup, out) ==
    IF out = "rejected"
    THEN [f EXCEPT !.enriched = Some(withUser(Get(f.request), f.userId)),
                   !.pending = {},
                   !.settled = Append(@, [lookup |-> lookup, out |-> out])]
    ELSE LET t == lookupThen(lookup, IF out = "value" THEN LookupBody(lookup) ELSE None)
         IN  [f EXCEPT !.enriched = IF t.present
                                    THEN Some([Get(@) EXCEPT ![FieldOf(lookup)] = t.value])
                                    ELSE @,
                       !.pending = @ \ {lookup},
                       !.settled = Append(@, [lookup |-> lookup, out |-> out])]

\* platformHttp.get(url) settled: .then(resp => ...) on a body,
\* .catch(() => {}) on a rejection
lookupSettled(f, lookup, out) ==
    LET t == lookupThen(lookup, IF out = "value" THEN LookupBody(lookup) ELSE None)
    IN  [f EXCEPT !.enriched = IF out # "rejected" /\ t.present
                               THEN Some([Get(@) EXCEPT ![FieldOf(lookup)] = t.value])
                               ELSE @,
                  !.pending = @ \ {lookup},
                  !.settled = Append(@, [lookup |-> lookup, out |-> out])]

methodRethrows(method, error, n) == error

\* catch (error) { throw createXError(`<prefix> ${error.message}`, undefined, undefined) }
methodCatch(method, error, n) ==
    createFeatureError(ErrorClassOf(method), PrefixOf(method) \o error.message,
                       None, None, <<method, n>>)

\* What the method call settles with once its withRetry has ended
methodResult(f, r) ==
    IF r.pc = "returned"
    THEN [value |-> r.result, error |-> None]
    ELSE [value |-> None,
          error |-> Some(methodCatch(f.method, Get(r.thrown), f.posts))]

batchSkipsFailedItem(method, res) ==
    IF IsSome(res.error) THEN <<>> ELSE <<Get(res.value)>>

\* The loop body of a batch method: results.push(response) in the try,
\* results.push(<error marker>) in the catch
batchPush(method, res) ==
    IF IsSome(res.error)
    THEN <<Marker(method, Get(res.error).message)>>
    ELSE <<Get(res.value)>>

\* The continuation of the caller when the method call has settled
methodSettled(f, r) ==
    LET res == methodResult(f, r)
        g == [f EXCEPT !.itemLog = Append(@, [value |-> res.value,
                                              error |-> res.error,
                                              input |-> Get(f.request),
                                              post |-> f.posts])]
    IN  IF ~f.batch
        THEN FeatStep([g EXCEPT !.phase = "done"], r,
                      IF IsSome(res.error) THEN "thrown" ELSE "returned", res)
        ELSE LET h == [g EXCEPT !.results = @ \o batchPush(f.method, res),
                                !.idx = @ + 1]
             IN  IF h.idx <= Len(h.items)
                 THEN methodStart(h, h.items[h.idx], None)
                 ELSE FeatStep([h EXCEPT !.phase = "done"], r, "returned",
                               [value |-> Some(h.results), error |-> None])

-----------------------------------------------------------------------------
(* State *)

HistInit ==
    [fetchCount |-> 0,      \* getConfirmationStatus calls issued
     transportCalls |-> 0,  \* HTTP requests issued
     fetched |-> <<>>,      \* records the status fetches returned, in order
     cbLog |-> <<>>,        \* statuses passed to callback / onStatusChange
     cbThrew |-> FALSE,     \* some callback invocation threw
     fetchError |-> None,   \* the error the last failed status fetch raised
     pollSleeps |-> 0,      \* sleep(interval) / setTimeout(poll, interval) started
     settles |-> 0,         \* resolve / reject calls of waitForApproval's promise
     log |-> <<>>]          \* fetches issued, their results and callback calls, in order

\* An entry of hist.log: ev is "fetch" (a status fetch is issued), "status"
\* (it returned a record), "failed" (it threw) or "callback"
Event(ev, id, status) == [ev |-> ev, id |-> id, status |-> status]

\* Map<string, ConfirmationStatus>
EmptyMap == [id \in {} |-> id]

MapSet(m, key, value) ==
    [id \in (DOMAIN m) \cup {key} |-> IF id = key THEN value ELSE m[id]]

BatchNone == [ids |-> <<>>, pendingIds |-> <<>>, idx |-> 0, results |-> EmptyMap]

CallNone ==
    [kind |-> "none", interval |-> 0, timeout |-> 0, startTime |-> 0,
     hasCallback |-> FALSE]

Init ==
    /\ now = 0
    /\ config \in [retries : (0..MaxAttempts), retryDelay : {0, BaseDelay}]
    /\ call = CallNone
    /\ pc = "idle"
    /\ outcome = [value |-> None, error |-> None]
    /\ rx = RxIdle
    /\ hist = HistInit
    /\ batch = BatchNone
    /\ sdk = SdkNone
    /\ feat = FeatNone
    /\ rx2 = RxIdle

-----------------------------------------------------------------------------
(* A direct use of the executor: withRetry(operation, config, context) *)

\* What an arbitrary operation may throw on its n-th invocation
OperationErrors(n) ==
    { NewError(t[1], <<"operation failed", ToString(<<"invocation", n>>)>>,
               t[2], None, t[3], <<"operation", n>>) :
        t \in { <<"GovernsAIError", Some(503), Some(TRUE)>>,
                <<"GovernsAIError", Some(404), Some(FALSE)>>,
                <<"ConfirmationError", Some(503), Some(TRUE)>>,
                <<"ConfirmationError", None, Some(FALSE)>>,
                <<"Error", None, None>> } }

OperationResults(n) ==
    {[value |-> Some(<<"result", n>>), error |-> None]}
        \cup {[value |-> None, error |-> Some(e)] : e \in OperationErrors(n)}

CallWithRetry ==
    /\ pc = "idle"
    /\ \E maxRetries \in 0..MaxAttempts, cond \in RetryConditions,
          retryDelay \in {BaseDelay, LargeDelay} :
         LET r == withRetryEnter(maxRetries, retryDelay, cond, "operation")
         IN  /\ rx' = r
             /\ call' = [CallNone EXCEPT !.kind = "withRetry"]
             /\ pc' = IF r.pc = "thrown" THEN "thrown" ELSE "awaiting"
             /\ outcome' = [value |-> None, error |-> r.thrown]
    /\ UNCHANGED <<now, config, hist, batch, sdk, feat, rx2>>

FinishReportsLastFailure(r) ==
    /\ pc' = IF r.pc = "returned" /\ ~IsSome(r.lastError) THEN "returned"
             ELSE IF r.pc \in {"returned", "thrown"} THEN "thrown" ELSE "awaiting"
    /\ outcome' = [value |-> r.result,
                   error |-> IF r.pc = "returned" THEN r.lastError ELSE r.thrown]

\* The promise returned by withRetry settles as the execution ends
Finish(r) ==
    /\ pc' = IF r.pc = "returned" THEN "returned"
             ELSE IF r.pc = "thrown" THEN "thrown" ELSE "awaiting"
    /\ outcome' = [value |-> r.result, error |-> r.thrown]

OperationSettles ==
    /\ call.kind = "withRetry"
    /\ rx.pc = "inflight"
    /\ \E res \in OperationResults(rx.calls), random \in JitterSamples :
         LET r == withRetrySettled(rx, res, random)
         IN  rx' = r /\ Finish(r)
    /\ UNCHANGED <<now, config, call, hist, batch, sdk, feat, rx2>>

\* await sleep(delay) resolved, in a direct execution or inside a status fetch
BackoffElapsed ==
    /\ rx.pc = "backoff"
    /\ now' = now + rx.sleeps[Len(rx.sleeps)]
    /\ rx' = withRetryWoken(rx)
    /\ IF call.kind = "withRetry"
       THEN Finish(rx') /\ UNCHANGED hist
       ELSE /\ hist' = [hist EXCEPT !.transportCalls = @ + 1]
            /\ UNCHANGED <<pc, outcome>>
    /\ UNCHANGED <<config, call, batch, sdk, feat, rx2>>

-----------------------------------------------------------------------------
(* Direct uses of the error factories and of categorizeError *)

ErrorStatuses == {400, 401, 403, 404, 422, 429, 500, 501, 502, 503, 504}

ErrorMessages == {<<"server", "said", "no">>, <<"network", "unreachable">>}

\* The errors a caller can build: by createErrorFromResponse, by one of the
\* createXError factories (statusCode is optional), or a plain Error
BuiltErrors ==
    {createErrorFromResponse([status |-> s, data |-> d, statusText |-> "status-text"],
                             <<"createErrorFromResponse", 0>>) :
        s \in ErrorStatuses,
        d \in {None} \cup {Some([error |-> m]) : m \in ErrorMessages}}
    \cup {createFeatureError(cls, m, sc, None, <<"createFeatureError", 0>>) :
        cls \in FeatureErrorClasses, m \in ErrorMessages,
        sc \in {None} \cup {Some(s) : s \in ErrorStatuses}}
    \cup {createAuthenticationError(m, sc, None, <<"createAuthenticationError", 0>>) :
        m \in ErrorMessages, sc \in {None} \cup {Some(s) : s \in ErrorStatuses}}
    \cup {NewError("Error", m, None, None, None, <<"new Error", 0>>) :
        m \in ErrorMessages}

CallCreateError ==
    /\ pc = "idle"
    /\ \E error \in BuiltErrors :
         outcome' = [value |-> Some(error), error |-> None]
    /\ call' = [CallNone EXCEPT !.kind = "createError"]
    /\ pc' = "returned"
    /\ UNCHANGED <<now, config, rx, hist, batch, sdk, feat, rx2>>

\* categorizeError(error) on the error just built
CallCategorizeError ==
    /\ call.kind = "createError"
    /\ pc = "returned"
    /\ LET error == Get(outcome.value)
       IN  outcome' = [value |-> Some([error |-> error,
                                       category |-> categorizeError(error)]),
                       error |-> None]
    /\ call' = [call EXCEPT !.kind = "categorizeError"]
    /\ UNCHANGED <<now, config, pc, rx, hist, batch, sdk, feat, rx2>>

-----------------------------------------------------------------------------
(* Transport: HTTPClient.request in utils.ts *)

HttpStatuses == {200, 400, 401, 404, 429, 500, 501, 503}

\* confirmation.status as the platform reports it
Statuses == {"pending", "approved", "denied", "expired", "cancelled"}

\* The ConfirmationStatus body of the n-th HTTP request of the call
StatusRecord(status, n) ==
    [confirmation |-> [correlationId |-> "corr-1", status |-> status], rev |-> n]

\* What fetch() may do for the n-th request: a response (status, parsed JSON
\* body or null), or a rejection with a plain Error.
\* A 200 response carries a ConfirmationStatus body.
TransportOutcomes(n) ==
    {[type |-> "response", status |-> 200, data |-> Some(StatusRecord(st, n)),
      message |-> <<>>] : st \in Statuses}
    \cup {[type |-> "response", status |-> s, data |-> d, message |-> <<>>] :
            s \in HttpStatuses \ {200},
            d \in {None, Some([error |-> <<"server", "said", "no">>])}}
    \cup {[type |-> "failure", status |-> 0, data |-> None, message |-> m] :
            m \in {<<"fetch", "failed">>, <<"socket", "hang", "up">>}}

\* response.ok
ResponseOk(status) == status >= 200 /\ status <= 299

\* response.status >= 500 || response.status === 429
transportRetryable(status) == status >= 500 \/ status = 429

\* request(): the value it resolves with or the GovernsAIError it throws
HTTPClientRequest(out, n) ==
    IF out.type = "response"
    THEN IF ~ResponseOk(out.status)
         THEN [value |-> None,
               error |-> Some(NewError(
                   "GovernsAIError",
                   IF IsSome(out.data) THEN Get(out.data).error
                                       ELSE <<"HTTP", ToString(out.status)>>,
                   Some(out.status),
                   Some([status |-> out.status, data |-> out.data]),
                   Some(transportRetryable(out.status)),
                   <<"request", n>>))]
         ELSE [value |-> out.data, error |-> None]
    ELSE LET error == NewError("Error", out.message, None, None, None, <<"fetch", n>>)
         IN  [value |-> None,
              error |-> Some(NewError("GovernsAIError", error.message, None, None,
                                      Some(isRetryableError(error)),
                                      <<"request catch", n>>))]

-----------------------------------------------------------------------------
(* ConfirmationClient *)

\* x || d on numbers
OrDefault(x, d) == IF x = 0 THEN d ELSE x

\* ConfirmationClient.withRetry: the policy built from the live configuration
ClientRetryEnter(cfg, context) ==
    withRetryEnter(OrDefault(cfg.retries, DefaultRetries),
                   OrDefault(cfg.retryDelay, DefaultRetryDelay),
                   "ConfirmationError", context)

\* getConfirmationStatus: try { return await this.withRetry(...) }
\*                        catch (error) { throw createConfirmationError(...) }
getConfirmationStatusResult(r, n) ==
    IF r.pc = "returned"
    THEN [value |-> r.result, error |-> None]
    ELSE [value |-> None,
          error |-> Some(createConfirmationError(
              <<"Failed to get confirmation status:">> \o Get(r.thrown).message,
              None, None, <<"getConfirmationStatus", n>>))]

isFinalStatusWithoutDenied(status) == status \in {"approved", "expired", "cancelled"}

isFinalStatus(status) == status \in {"approved", "denied", "expired", "cancelled"}

NoOutcome == [value |-> None, error |-> None]

\* What a throwing callback throws
callbackCallsUnlessFinal(currentStatus) ==
    IF currentStatus \in {"approved", "denied", "expired", "cancelled"}
    THEN <<>> ELSE <<currentStatus>>

\* callback(currentStatus) / onStatusChange(currentStatus): the invocations
\* made for a fetched status, before the loop looks at it
callbackCalls(currentStatus) == <<currentStatus>>

\* hist after those invocations
Reported(h, id, currentStatus) ==
    LET calls == callbackCalls(currentStatus)
    IN  [h EXCEPT !.cbLog = @ \o calls,
                  !.log = @ \o [i \in 1..Len(calls) |-> Event("callback", id, calls[i])]]

CallbackError(n) == NewError("Error", <<"callback failed">>, None, None, None,
                             <<"callback", n>>)

pollRethrowsRetryable(error) ==
    InstanceOf(error, "ConfirmationError") /\ error.retryable = Some(TRUE)

\* if (error instanceof ConfirmationError && !error.retryable) throw error;
pollRethrows(error) ==
    InstanceOf(error, "ConfirmationError") /\ error.retryable # Some(TRUE)

pollWithinDeadlineInclusive(t, startTime, maxDuration) == t - startTime <= maxDuration

\* while (Date.now() - startTime < maxDuration)
pollWithinDeadline(t, startTime, maxDuration) == t - startTime < maxDuration

\* pollConfirmation's catch block
pollCatch(error, h) ==
    IF pollRethrows(error)
    THEN [pc |-> "thrown", outcome |-> [value |-> None, error |-> Some(error)],
          hist |-> h]
    ELSE [pc |-> "sleeping", outcome |-> NoOutcome,
          hist |-> [h EXCEPT !.pollSleeps = @ + 1]]

\* pollConfirmation after `await this.getConfirmationStatus(correlationId)`
pollConfirmationFetched(gs, cbThrows, h) ==
    IF IsSome(gs.error)
    THEN pollCatch(Get(gs.error), [h EXCEPT !.fetchError = gs.error])
    ELSE LET status == Get(gs.value)
             currentStatus == status.confirmation.status
             h1 == Reported([h EXCEPT !.fetched = Append(@, status),
                                      !.fetchError = None],
                            status.confirmation.correlationId, currentStatus)
         IN  IF cbThrows
             THEN pollCatch(CallbackError(Len(h1.cbLog)), [h1 EXCEPT !.cbThrew = TRUE])
             ELSE IF isFinalStatus(currentStatus)
             THEN [pc |-> "returned", outcome |-> NoOutcome, hist |-> h1]
             ELSE [pc |-> "sleeping", outcome |-> NoOutcome,
                   hist |-> [h1 EXCEPT !.pollSleeps = @ + 1]]

\* throw createConfirmationError(`Confirmation polling timed out after ${timeout}ms`)
PollTimeoutError(timeout) ==
    createConfirmationError(
        <<"Confirmation polling timed out after", ToString(timeout), "ms">>,
        None, None, <<"pollConfirmation", 0>>)

waitResolvesOnFinal(currentStatus) == isFinalStatus(currentStatus)

\* if (currentStatus === 'approved') resolve(status)
waitResolves(currentStatus) == currentStatus = "approved"

waitRejectsOnlyDenied(currentStatus) == currentStatus = "denied"

\* if (this.isFinalStatus(currentStatus) && currentStatus !== 'approved') reject(...)
waitRejects(currentStatus) ==
    isFinalStatus(currentStatus) /\ currentStatus # "approved"

waitDeadlinePassedStrict(t, startTime, maxDuration) == t - startTime > maxDuration

\* if (Date.now() - startTime >= maxDuration) reject(...)
waitDeadlinePassed(t, startTime, maxDuration) == t - startTime >= maxDuration

\* reject(createConfirmationError(`Confirmation approval timed out after ${timeout}ms`))
WaitTimeoutError(timeout) ==
    createConfirmationError(
        <<"Confirmation approval timed out after", ToString(timeout), "ms">>,
        None, None, <<"waitForApproval", 0>>)

Rejected(error, h) ==
    [pc |-> "rejected", outcome |-> [value |-> None, error |-> Some(error)],
     hist |-> [h EXCEPT !.settles = @ + 1]]

waitCatchKeepsPolling(error, h) ==
    [pc |-> "sleeping", outcome |-> NoOutcome,
     hist |-> [h EXCEPT !.pollSleeps = @ + 1]]

\* catch (error) { reject(error); }
waitCatch(error, h) == Rejected(error, h)

waitForApprovalDeadlineFirst(gs, cbThrows, t, c, h) ==
    IF IsSome(gs.error)
    THEN waitCatch(Get(gs.error), [h EXCEPT !.fetchError = gs.error])
    ELSE LET status == Get(gs.value)
             currentStatus == status.confirmation.status
             h0 == [h EXCEPT !.fetched = Append(@, status), !.fetchError = None]
             h1 == IF c.hasCallback
                   THEN Reported(h0, status.confirmation.correlationId, currentStatus)
                   ELSE h0
         IN  IF c.hasCallback /\ cbThrows
             THEN waitCatch(CallbackError(Len(h1.cbLog)), [h1 EXCEPT !.cbThrew = TRUE])
             ELSE IF waitDeadlinePassed(t, c.startTime, c.timeout)
             THEN Rejected(WaitTimeoutError(c.timeout), h1)
             ELSE IF waitResolves(currentStatus)
             THEN [pc |-> "resolved", outcome |-> [value |-> Some(status), error |-> None],
                   hist |-> [h1 EXCEPT !.settles = @ + 1]]
             ELSE IF waitRejects(currentStatus)
             THEN Rejected(createConfirmationError(
                               <<"Confirmation was", currentStatus, "instead of approved">>,
                               None, None, <<"waitForApproval", Len(h1.fetched)>>), h1)
             ELSE IF waitDeadlinePassed(t, c.startTime, c.timeout)
             THEN Rejected(WaitTimeoutError(c.timeout), h1)
             ELSE [pc |-> "sleeping", outcome |-> NoOutcome,
                   hist |-> [h1 EXCEPT !.pollSleeps = @ + 1]]

\* waitForApproval's poll() after `await this.getConfirmationStatus(correlationId)`
waitForApprovalFetched(gs, cbThrows, t, c, h) ==
    IF IsSome(gs.error)
    THEN waitCatch(Get(gs.error), [h EXCEPT !.fetchError = gs.error])
    ELSE LET status == Get(gs.value)
             currentStatus == status.confirmation.status
             h0 == [h EXCEPT !.fetched = Append(@, status), !.fetchError = None]
             h1 == IF c.hasCallback
                   THEN Reported(h0, status.confirmation.correlationId, currentStatus)
                   ELSE h0
         IN  IF c.hasCallback /\ cbThrows
             THEN waitCatch(CallbackError(Len(h1.cbLog)), [h1 EXCEPT !.cbThrew = TRUE])
             ELSE IF waitResolves(currentStatus)
             THEN [pc |-> "resolved", outcome |-> [value |-> Some(status), error |-> None],
                   hist |-> [h1 EXCEPT !.settles = @ + 1]]
             ELSE IF waitRejects(currentStatus)
             THEN Rejected(createConfirmationError(
                               <<"Confirmation was", currentStatus, "instead of approved">>,
                               None, None, <<"waitForApproval", Len(h1.fetched)>>), h1)
             ELSE IF waitDeadlinePassed(t, c.startTime, c.timeout)
             THEN Rejected(WaitTimeoutError(c.timeout), h1)
             ELSE [pc |-> "sleeping", outcome |-> NoOutcome,
                   hist |-> [h1 EXCEPT !.pollSleeps = @ + 1]]

\* this.getConfirmationStatus(correlationId) is called: the policy is built
\* and the first HTTP request goes out
FetchStatusFor(correlationId, h) ==
    /\ rx' = ClientRetryEnter(config, "get confirmation status")
    /\ pc' = "awaiting"
    /\ outcome' = NoOutcome
    /\ hist' = [h EXCEPT !.fetchCount = @ + 1, !.transportCalls = @ + 1,
                         !.log = Append(@, Event("fetch", correlationId, ""))]

FetchStatus == FetchStatusFor("corr-1", hist)

\* hist with the result of the status fetch for correlationId logged
Settled(h, correlationId, gs) ==
    [h EXCEPT !.log = Append(@, IF IsSome(gs.error)
                                THEN Event("failed", correlationId, "")
                                ELSE Event("status", correlationId,
                                           Get(gs.value).confirmation.status))]

CallGetConfirmationStatus ==
    /\ pc = "idle"
    /\ call' = [CallNone EXCEPT !.kind = "getStatus"]
    /\ FetchStatus
    /\ UNCHANGED <<now, config, batch, sdk, feat, rx2>>

\* The loop test of pollConfirmation at time t, then a fetch or the timeout
PollLoop(t, c) ==
    IF pollWithinDeadline(t, c.startTime, c.timeout)
    THEN FetchStatus
    ELSE /\ pc' = "thrown"
         /\ outcome' = [value |-> None, error |-> Some(PollTimeoutError(c.timeout))]
         /\ UNCHANGED <<rx, hist>>

CallPollConfirmation ==
    /\ pc = "idle"
    /\ \E timeout \in {0, PollTimeout} :
         LET c == [kind |-> "poll", interval |-> PollInterval, timeout |-> timeout,
                   startTime |-> now, hasCallback |-> TRUE]
         IN  call' = c /\ PollLoop(now, c)
    /\ UNCHANGED <<now, config, batch, sdk, feat, rx2>>

\* await sleep(interval) resolved
PollSleepElapsed ==
    /\ call.kind = "poll"
    /\ pc = "sleeping"
    /\ now' = now + call.interval
    /\ PollLoop(now', call)
    /\ UNCHANGED <<config, call, batch, sdk, feat, rx2>>

CallWaitForApproval ==
    /\ pc = "idle"
    /\ \E timeout \in {0, PollTimeout}, hasCallback \in BOOLEAN :
         call' = [kind |-> "wait", interval |-> PollInterval, timeout |-> timeout,
                  startTime |-> now, hasCallback |-> hasCallback]
    /\ FetchStatus
    /\ UNCHANGED <<now, config, batch, sdk, feat, rx2>>

\* setTimeout(poll, interval) fired
WaitTimerFires ==
    /\ call.kind = "wait"
    /\ pc = "sleeping"
    /\ now' = now + call.interval
    /\ FetchStatus
    /\ UNCHANGED <<config, call, batch, sdk, feat, rx2>>

\* The HTTP request of a status fetch settles; everything up to the next
\* suspension point runs: request's mapping, withRetry's try/catch,
\* getConfirmationStatus' try/catch and the caller's continuation.
TransportSettles ==
    /\ call.kind \in {"getStatus", "poll", "wait"}
    /\ rx.pc = "inflight"
    /\ \E out \in TransportOutcomes(hist.transportCalls),
          latency \in {0, FetchLatency},
          random \in JitterSamples,
          cbThrows \in BOOLEAN :
         LET r == withRetrySettled(rx, HTTPClientRequest(out, hist.transportCalls), random)
             gs == getConfirmationStatusResult(r, hist.fetchCount)
             t == now + latency
             h == Settled(hist, "corr-1", gs)
             k == IF call.kind = "poll" THEN pollConfirmationFetched(gs, cbThrows, h)
                  ELSE IF call.kind = "wait"
                  THEN waitForApprovalFetched(gs, cbThrows, t, call, h)
                  ELSE [pc |-> IF IsSome(gs.error) THEN "thrown" ELSE "returned",
                        outcome |-> gs,
                        hist |-> [h EXCEPT !.fetchError = gs.error]]
         IN  /\ now' = t
             /\ rx' = r
             /\ IF r.pc = "backoff"
                THEN UNCHANGED <<pc, outcome, hist>>
                ELSE pc' = k.pc /\ outcome' = k.outcome /\ hist' = k.hist
    /\ UNCHANGED <<config, call, batch, sdk, feat, rx2>>

-----------------------------------------------------------------------------
(* ConfirmationClient.pollBatchConfirmations *)

\* The correlationIds lists explored: empty, distinct ids, one id twice
BatchIdLists == {<<>>, <<"a", "b">>, <<"a", "a">>}

StatusRecordFor(correlationId, status, n) ==
    [confirmation |-> [correlationId |-> correlationId, status |-> status], rev |-> n]

\* What fetch() may do for a status request of a batch poll
BatchOutcomes(correlationId, n) ==
    {[type |-> "response", status |-> 200,
      data |-> Some(StatusRecordFor(correlationId, st, n)), message |-> <<>>] :
        st \in {"pending", "approved", "denied"}}
    \cup {[type |-> "response", status |-> 503, data |-> None, message |-> <<>>]}

\* correlationIds.filter(id => !results.has(id))
batchPendingIds(ids, results) ==
    SelectSeq(ids, LAMBDA id : id \notin DOMAIN results)

batchRecordsAnyStatus(currentStatus) == TRUE

\* if (this.isFinalStatus(currentStatus)) results.set(correlationId, status)
batchRecords(currentStatus) == isFinalStatus(currentStatus)

\* while (Date.now() - startTime < maxDuration)
batchWithinDeadline(t, startTime, maxDuration) == t - startTime < maxDuration

pollBatchFetchedReportsFailure(gs, cbThrows, results, h) ==
    IF IsSome(gs.error)
    THEN [results |-> results,
          hist |-> [h EXCEPT !.fetchError = gs.error,
                             !.cbLog = Append(@, "error"),
                             !.log = Append(@, Event("callback", h.log[Len(h.log)].id,
                                                     "error"))]]
    ELSE LET status == Get(gs.value)
             correlationId == status.confirmation.correlationId
             currentStatus == status.confirmation.status
             h1 == Reported([h EXCEPT !.fetched = Append(@, status),
                                      !.fetchError = None],
                            correlationId, currentStatus)
         IN  IF cbThrows
             THEN [results |-> results, hist |-> [h1 EXCEPT !.cbThrew = TRUE]]
             ELSE IF batchRecords(currentStatus)
             THEN [results |-> MapSet(results, correlationId, status), hist |-> h1]
             ELSE [results |-> results, hist |-> h1]

\* The body of the for loop after `await this.getConfirmationStatus(id)`:
\* the results map and hist afterwards.  Both catch paths only log.
pollBatchFetched(gs, cbThrows, results, h) ==
    IF IsSome(gs.error)
    THEN [results |-> results, hist |-> [h EXCEPT !.fetchError = gs.error]]
    ELSE LET status == Get(gs.value)
             correlationId == status.confirmation.correlationId
             currentStatus == status.confirmation.status
             h1 == Reported([h EXCEPT !.fetched = Append(@, status),
                                      !.fetchError = None],
                            correlationId, currentStatus)
         IN  IF cbThrows
             THEN [results |-> results, hist |-> [h1 EXCEPT !.cbThrew = TRUE]]
             ELSE IF batchRecords(currentStatus)
             THEN [results |-> MapSet(results, correlationId, status), hist |-> h1]
             ELSE [results |-> results, hist |-> h1]

\* return results
BatchReturns(results, h) ==
    /\ pc' = "returned"
    /\ outcome' = [value |-> Some(results), error |-> None]
    /\ hist' = h
    /\ UNCHANGED rx

\* The loop test at time t, the filter, then the first fetch of the tick,
\* or the return
BatchLoop(t, c, b) ==
    LET pendingIds == batchPendingIds(b.ids, b.results)
    IN  IF batchWithinDeadline(t, c.startTime, c.timeout) /\ pendingIds # <<>>
        THEN /\ batch' = [b EXCEPT !.pendingIds = pendingIds, !.idx = 1]
             /\ FetchStatusFor(pendingIds[1], hist)
        ELSE /\ batch' = b
             /\ BatchReturns(b.results, hist)

CallPollBatchConfirmations ==
    /\ pc = "idle"
    /\ \E ids \in BatchIdLists :
         LET c == [kind |-> "batch", interval |-> PollInterval,
                   timeout |-> BatchTimeout, startTime |-> now, hasCallback |-> TRUE]
         IN  call' = c /\ BatchLoop(now, c, [BatchNone EXCEPT !.ids = ids])
    /\ UNCHANGED <<now, config, sdk, feat, rx2>>

\* await sleep(interval) resolved
BatchSleepElapsed ==
    /\ call.kind = "batch"
    /\ pc = "sleeping"
    /\ now' = now + call.interval
    /\ BatchLoop(now', call, batch)
    /\ UNCHANGED <<config, call, sdk, feat, rx2>>

\* The HTTP request of a status fetch of the batch settles: the fetch's
\* continuation, then the next pending id of the tick or the sleep.
BatchTransportSettles ==
    /\ call.kind = "batch"
    /\ rx.pc = "inflight"
    /\ LET correlationId == batch.pendingIds[batch.idx] IN
       \E out \in BatchOutcomes(correlationId, hist.transportCalls),
          random \in JitterSamples,
          cbThrows \in BOOLEAN :
         LET r == withRetrySettled(rx, HTTPClientRequest(out, hist.transportCalls), random)
             gs == getConfirmationStatusResult(r, hist.fetchCount)
             k == pollBatchFetched(gs, cbThrows, batch.results,
                                   Settled(hist, correlationId, gs))
         IN  IF r.pc = "backoff"
             THEN rx' = r /\ UNCHANGED <<pc, outcome, hist, batch>>
             ELSE IF batch.idx < Len(batch.pendingIds)
             THEN /\ batch' = [batch EXCEPT !.results = k.results, !.idx = @ + 1]
                  /\ FetchStatusFor(batch.pendingIds[batch.idx + 1], k.hist)
             ELSE /\ batch' = [batch EXCEPT !.results = k.results]
                  /\ rx' = r
                  /\ pc' = "sleeping"
                  /\ outcome' = NoOutcome
                  /\ hist' = [k.hist EXCEPT !.pollSleeps = @ + 1]
    /\ UNCHANGED <<now, config, call, sdk, feat, rx2>>

-----------------------------------------------------------------------------
(* GovernsAIClient: construction, updateConfig, getConfig, withRetry *)

\* The configurations given to the constructor
ConstructInputs ==
    {[f \in ConfigFields |->
        CASE f = "apiKey" -> Some(t[1])
          [] f = "orgId" -> Some(t[2])
          [] f = "baseUrl" -> Some(t[3])
          [] f = "timeout" -> t[4]
          [] f = "retries" -> t[5]
          [] f = "retryDelay" -> None] :
      t \in {"", "key-1"} \X {"", "org-1"} \X {"https://api.governs.ai", "not-a-url"}
            \X {None, Some(0), Some(999), Some(1000), Some(300001)}
            \X {None, Some(0), Some(2), Some(11), Some(-1)}}

NoFields == [f \in ConfigFields |-> None]

\* The partial configurations given to updateConfig
UpdateInputs ==
    {[NoFields EXCEPT !["timeout"] = Some(60000)],
     [NoFields EXCEPT !["apiKey"] = Some("")],
     [NoFields EXCEPT !["retries"] = Some(11)],
     [NoFields EXCEPT !["retries"] = Some(1), !["retryDelay"] = Some(2000)],
     [NoFields EXCEPT !["baseUrl"] = Some("https://eu.governs.ai"),
                      !["apiKey"] = Some("key-2")]}

Construct ==
    /\ sdk.status = "none"
    /\ pc = "idle"
    /\ \E variant \in ClientVariants, userConfig \in ConstructInputs :
         sdk' = constructor(variant, userConfig)
    /\ UNCHANGED <<now, config, call, pc, outcome, rx, hist, batch, feat, rx2>>

\* updateConfig is synchronous: it runs between any two steps of a call
UpdateConfig ==
    /\ sdk.status = "constructed"
    /\ sdk.updates < MaxUpdates
    /\ \E newConfig \in UpdateInputs : sdk' = updateConfig(sdk, newConfig)
    /\ UNCHANGED <<now, config, call, pc, outcome, rx, hist, batch, feat, rx2>>

\* getConfig(): return { ...this.config }
CallGetConfig ==
    /\ sdk.status = "constructed"
    /\ pc = "idle"
    /\ call' = [CallNone EXCEPT !.kind = "getConfig"]
    /\ pc' = "returned"
    /\ outcome' = [value |-> sdk.config, error |-> None]
    /\ sdk' = [sdk EXCEPT !.lastCall =
                  Some([client |-> "getConfig", policy |-> None,
                        httpClient |-> Get(sdk.httpClient),
                        platformHttp |-> None, updates |-> sdk.updates])]
    /\ UNCHANGED <<now, config, rx, hist, batch, feat, rx2>>

\* A method of a feature client starts: it builds its retry policy from
\* this.config and sends its first request through this.httpClient (the
\* precheck client sends its lookups through this.platformHttp).
CallFeatureMethod ==
    /\ sdk.status = "constructed"
    /\ pc = "idle"
    /\ \E name \in DOMAIN sdk.feature :
         LET fc == sdk.feature[name]
         IN  sdk' = [sdk EXCEPT !.lastCall =
                        Some([client |-> name,
                              policy |-> IF IsSome(fc.config)
                                         THEN Some(RetryConfigFrom(Get(fc.config)))
                                         ELSE None,
                              httpClient |-> fc.httpClient,
                              platformHttp |-> fc.platformHttp,
                              updates |-> sdk.updates])]
    /\ call' = [CallNone EXCEPT !.kind = "featureMethod"]
    /\ pc' = "awaiting"
    /\ hist' = [hist EXCEPT !.transportCalls = @ + 1]
    /\ UNCHANGED <<now, config, outcome, rx, batch, feat, rx2>>

\* GovernsAIClient.withRetry(operation, context)
CallClientWithRetry ==
    /\ sdk.status = "constructed"
    /\ pc = "idle"
    /\ LET policy == RetryConfigFrom(Get(sdk.config))
       IN  /\ rx' = withRetryEnter(policy.maxRetries, policy.retryDelay,
                                   "GovernsAIError", "operation")
           /\ sdk' = [sdk EXCEPT !.lastCall =
                         Some([client |-> "GovernsAIClient",
                               policy |-> Some(policy),
                               httpClient |-> Get(sdk.httpClient),
                               platformHttp |-> None,
                               updates |-> sdk.updates])]
    /\ call' = [CallNone EXCEPT !.kind = "clientWithRetry"]
    /\ pc' = "awaiting"
    /\ outcome' = NoOutcome
    /\ UNCHANGED <<now, config, hist, batch, feat, rx2>>

\* What the operation given to GovernsAIClient.withRetry may do
ClientOperationResults(n) ==
    {[value |-> Some(<<"result", n>>), error |-> None]}
    \cup {[value |-> None,
           error |-> Some(NewError("GovernsAIError",
                                   <<"operation failed", ToString(<<"invocation", n>>)>>,
                                   Some(t[1]), None, Some(t[2]), <<"operation", n>>))] :
            t \in {<<503, TRUE>>, <<404, FALSE>>}}

retryConfigLive(r, s) ==
    [r EXCEPT !.maxRetries = RetryConfigFrom(Get(s.config)).maxRetries,
              !.retryDelay = RetryConfigFrom(Get(s.config)).retryDelay]

\* The retryConfig object withRetry received: a const built once per call,
\* which the loop reads at every attempt
retryConfigOf(r, s) == r

ClientOperationSettles ==
    /\ call.kind = "clientWithRetry"
    /\ rx.pc = "inflight"
    /\ \E res \in ClientOperationResults(rx.calls), random \in {0, 99} :
         LET r == withRetrySettled(retryConfigOf(rx, sdk), res, random)
         IN  rx' = r /\ Finish(r)
    /\ UNCHANGED <<now, config, call, hist, batch, sdk, feat, rx2>>

ClientBackoffElapsed ==
    /\ call.kind = "clientWithRetry"
    /\ rx.pc = "backoff"
    /\ now' = now + rx.sleeps[Len(rx.sleeps)]
    /\ rx' = withRetryWoken(retryConfigOf(rx, sdk))
    /\ Finish(rx')
    /\ UNCHANGED <<config, call, hist, batch, sdk, feat, rx2>>

-----------------------------------------------------------------------------
(* Feature-client calls *)

\* The PrecheckRequests given to checkRequest
PrecheckRequests ==
    {[f \in RequestFields |->
        CASE f = "raw_text" -> Some("text")
          [] f = "userId" -> None
          [] f = "tool" -> t[1]
          [] f = "policy_config" -> t[2]
          [] f = "tool_config" -> t[3]
          [] f = "budget_context" -> t[4]] :
      t \in {None, Some("weather")} \X {None, Some("caller policy_config")}
            \X {None, Some("caller tool_config")}
            \X {None, Some("caller budget_context")}}

\* The inputs of a method; a batch takes its items from the samples
MethodInputs(method) ==
    CASE method = "checkRequest" -> PrecheckRequests
      [] method = "executeTool" ->
           {[tool |-> "weather", args |-> "args"], [tool |-> "mail", args |-> "args"]}
      [] method = "createConfirmation" ->
           {[correlationId |-> "corr-1", requestType |-> "tool_call"],
            [correlationId |-> "corr-2", requestType |-> "chat"]}

BatchSamples(method) ==
    IF method = "checkRequest"
    THEN {r \in PrecheckRequests :
            /\ IsSome(r["policy_config"]) /\ ~IsSome(r["tool"])
            /\ ~IsSome(r["tool_config"])}
    ELSE MethodInputs(method)

BatchInputs(method) ==
    UNION {[1..n -> BatchSamples(method)] : n \in 0..MaxItems}

\* What the transport may settle a POST with: a response, a rejection with a
\* plain Error (no response at all), a transport error carrying a status, or
\* an error of the client's own class that its retry condition accepts
FeatureOperationResults(cls, n) ==
    {[value |-> Some(Response(n)), error |-> None],
     [value |-> None,
      error |-> Some(NewError("Error", <<"Network error">>, None, None, None,
                              <<"fetch", n>>))],
     [value |-> None,
      error |-> Some(NewError("GovernsAIError", <<"HTTP", "500">>, Some(500), None,
                              Some(TRUE), <<"request", n>>))],
     [value |-> None,
      error |-> Some(NewError(cls, <<"service unavailable">>, Some(503), None,
                              Some(TRUE), <<"operation", n>>))]}

Becomes(step) ==
    /\ feat' = step.feat
    /\ rx' = step.rx
    /\ pc' = step.pc
    /\ outcome' = step.outcome

\* checkRequest(request, userId), executeTool(tool, args) or
\* createConfirmation(request) is called
CallMethod ==
    /\ pc = "idle"
    /\ feat.phase = "idle"
    /\ \E method \in Methods, userId \in {None, Some("user-1")} :
         /\ IsSome(userId) => method = "checkRequest"
         /\ \E input \in MethodInputs(method) :
              Becomes(methodStart([FeatNone EXCEPT !.method = method], input, userId))
    /\ call' = [CallNone EXCEPT !.kind = "method"]
    /\ UNCHANGED <<now, config, hist, batch, sdk, rx2>>

\* checkBatch(requests), executeBatchTools(toolCalls) or
\* createBatchConfirmations(requests) is called
CallBatchMethod ==
    /\ pc = "idle"
    /\ feat.phase = "idle"
    /\ \E method \in Methods :
         \E items \in BatchInputs(method) :
           LET f == [FeatNone EXCEPT !.method = method, !.batch = TRUE,
                                     !.items = items, !.idx = 1]
           IN  IF items = <<>>
               THEN Becomes(FeatStep([f EXCEPT !.phase = "done"], RxIdle, "returned",
                                     [value |-> Some(<<>>), error |-> None]))
               ELSE Becomes(methodStart(f, items[1], None))
    /\ call' = [CallNone EXCEPT !.kind = "batchMethod"]
    /\ UNCHANGED <<now, config, hist, batch, sdk, rx2>>

\* One platform lookup settles; when it was the last one Promise.all resolves
\* and checkRequest goes on to its POST
LookupSettles ==
    /\ feat.phase = "enrich"
    /\ \E lookup \in feat.pending, out \in LookupOutcomes :
         LET f == lookupSettled(feat, lookup, out)
         IN  IF joined(f)
             THEN Becomes(postStart(f, Get(f.enriched)))
             ELSE Becomes(FeatStep(f, rx, pc, outcome))
    /\ UNCHANGED <<now, config, call, hist, batch, sdk, rx2>>

\* The POST of the method settles
MethodPostSettles ==
    /\ feat.phase = "post"
    /\ rx.pc = "inflight"
    /\ \E res \in FeatureOperationResults(ErrorClassOf(feat.method), feat.posts) :
         LET r == withRetrySettled(rx, res, 0)
         IN  IF r.pc = "backoff"
             THEN Becomes(FeatStep(feat, r, pc, outcome))
             ELSE Becomes(methodSettled(feat, r))
    /\ UNCHANGED <<now, config, call, hist, batch, sdk, rx2>>

\* The backoff wait of the method's withRetry ends: operation() again
MethodBackoffElapsed ==
    /\ feat.phase = "post"
    /\ rx.pc = "backoff"
    /\ now' = now + rx.sleeps[Len(rx.sleeps)]
    /\ LET r == withRetryWoken(rx)
       IN  IF r.pc = "inflight"
           THEN Becomes(FeatStep(httpPost(feat, Get(feat.enriched)), r, pc, outcome))
           ELSE Becomes(methodSettled(feat, r))
    /\ UNCHANGED <<config, call, hist, batch, sdk, rx2>>

-----------------------------------------------------------------------------
(* The two executors side by side *)

\* withRetry of utils.ts and withRetry of errors.ts are called with the same
\* policy and context
CallBothExecutors ==
    /\ pc = "idle"
    /\ \E maxRetries \in 0..MaxAttempts, cond \in RetryConditions,
          retryDelay \in {BaseDelay, LargeDelay} :
         /\ rx' = withRetryEnter(maxRetries, retryDelay, cond, "operation")
         /\ rx2' = errorsWithRetryEnter(maxRetries, retryDelay, cond, "operation")
    /\ call' = [CallNone EXCEPT !.kind = "both"]
    /\ Finish(rx')
    /\ UNCHANGED <<now, config, hist, batch, sdk, feat>>

\* The n-th invocation of the operation settles in the same way, and
\* Math.random() draws the same jitter, in each execution that is at it
BothOperationsSettle ==
    /\ call.kind = "both"
    /\ rx.pc = "inflight" \/ rx2.pc = "inflight"
    /\ LET n == IF rx.pc = "inflight" THEN rx.calls ELSE rx2.calls
       IN  \E res \in OperationResults(n), random \in JitterSamples :
             /\ rx' = IF rx.pc = "inflight" /\ rx.calls = n
                      THEN withRetrySettled(rx, res, random) ELSE rx
             /\ rx2' = IF rx2.pc = "inflight" /\ rx2.calls = n
                       THEN errorsWithRetrySettled(rx2, res, random) ELSE rx2
    /\ Finish(rx')
    /\ UNCHANGED <<now, config, call, hist, batch, sdk, feat>>

\* The backoff timers fire
BothBackoffsElapse ==
    /\ call.kind = "both"
    /\ rx.pc = "backoff" \/ rx2.pc = "backoff"
    /\ rx.pc # "inflight" /\ rx2.pc # "inflight"
    /\ now' = now + (IF rx.pc = "backoff" THEN rx.sleeps[Len(rx.sleeps)]
                     ELSE rx2.sleeps[Len(rx2.sleeps)])
    /\ rx' = IF rx.pc = "backoff" THEN withRetryWoken(rx) ELSE rx
    /\ rx2' = IF rx2.pc = "backoff" THEN errorsWithRetryWoken(rx2) ELSE rx2
    /\ Finish(rx')
    /\ UNCHANGED <<config, call, hist, batch, sdk, feat>>

-----------------------------------------------------------------------------

Next ==
    \/ CallWithRetry
    \/ OperationSettles
    \/ BackoffElapsed
    \/ CallGetConfirmationStatus
    \/ CallPollConfirmation
    \/ PollSleepElapsed
    \/ CallWaitForApproval
    \/ WaitTimerFires
    \/ TransportSettles
    \/ CallPollBatchConfirmations
    \/ BatchSleepElapsed
    \/ BatchTransportSettles
    \/ CallCreateError
    \/ CallCategorizeError

Spec == Init /\ [][Next]_vars

\* The event loop runs every due timer and every transport call settles
\* (fetch is given an AbortSignal timeout), so a pending step is taken.
FairSpec == Spec /\ WF_vars(Next)

\* The life of one GovernsAIClient object
ClientNext ==
    \/ Construct
    \/ UpdateConfig
    \/ CallGetConfig
    \/ CallFeatureMethod
    \/ CallClientWithRetry
    \/ ClientOperationSettles
    \/ ClientBackoffElapsed

ClientInit ==
    /\ Init
    /\ config = [retries |-> 0, retryDelay |-> 0]

ClientSpec == ClientInit /\ [][ClientNext]_vars

\* The calls on the feature clients
FeatureNext ==
    \/ CallMethod
    \/ CallBatchMethod
    \/ LookupSettles
    \/ MethodPostSettles
    \/ MethodBackoffElapsed

FeatureInit == Init /\ config = [retries |-> 0, retryDelay |-> 0]

FeatureSpec == FeatureInit /\ [][FeatureNext]_vars

\* The two retry executors on the same inputs
EquivNext ==
    \/ CallBothExecutors
    \/ BothOperationsSettle
    \/ BothBackoffsElapse

EquivInit == Init /\ config = [retries |-> 0, retryDelay |-> 0]

EquivSpec == EquivInit /\ [][EquivNext]_vars

-----------------------------------------------------------------------------
(* Vocabulary of the properties *)

TerminalStatuses == {"approved", "denied", "expired", "cancelled"}

StatusOf(record) == record.confirmation.status

StatusesOf(records) == [i \in 1..Len(records) |-> StatusOf(records[i])]

Ended == pc \in {"returned", "thrown", "resolved", "rejected"}

\* Every failure of the execution was one its retry condition accepts
AllAccepted(r) == \A i \in 1..Len(r.failures) : retryCondition(r.cond, r.failures[i])

\* An HTTP failure the taxonomy calls retryable
RetryableTransportFailure(e) ==
    IsSome(e.statusCode) /\ Get(e.statusCode) \in {429, 500, 502, 503, 504}

\* A transient failure of the transport: no response at all, or a 5xx
TransientTransportFailure(e) ==
    ~IsSome(e.statusCode) \/ Get(e.statusCode) >= 500

\* Every status fetch so far returned pending (none failed)
AllPending ==
    /\ ~IsSome(hist.fetchError)
    /\ \A i \in 1..Len(hist.fetched) : StatusOf(hist.fetched[i]) = "pending"

-----------------------------------------------------------------------------
(* Properties *)

\* C1. Retry bound: with maxRetries = N >= 1 and every attempt failing with
\* an error the retry condition accepts, the operation is invoked at most N
\* times; the execution raises only after exactly N invocations, raises once,
\* and raises as soon as the N-th attempt has failed.
C1_RetryBound ==
    (rx.maxRetries >= 1 /\ AllAccepted(rx)) =>
        /\ rx.calls <= rx.maxRetries
        /\ rx.raised <= 1
        /\ (rx.pc = "thrown" =>
                rx.calls = rx.maxRetries /\ Len(rx.failures) = rx.maxRetries
                /\ rx.raised = 1)
        /\ (Len(rx.failures) = rx.maxRetries => rx.pc = "thrown")

C1_Witness ==
    /\ call.kind = "withRetry" /\ rx.pc = "thrown"
    /\ rx.maxRetries = MaxAttempts /\ AllAccepted(rx)
    /\ rx.calls = MaxAttempts /\ Len(rx.failures) = MaxAttempts

\* C2. No retry on non-retryable: a failure the retry condition rejects is
\* the last one; the execution throws that very error object, the operation
\* has been invoked exactly as often as it has failed, and no backoff sleep
\* follows the failure (one sleep per earlier failure only).
C2_NoRetryOnNonRetryable ==
    \A i \in 1..Len(rx.failures) :
        ~retryCondition(rx.cond, rx.failures[i]) =>
            /\ i = Len(rx.failures)
            /\ rx.pc = "thrown"
            /\ rx.thrown = Some(rx.failures[i])
            /\ rx.calls = i
            /\ Len(rx.sleeps) = i - 1
            /\ (call.kind = "withRetry" =>
                    pc = "thrown" /\ outcome.error = Some(rx.failures[i]))

C2_Witness ==
    /\ call.kind = "withRetry" /\ rx.pc = "thrown"
    /\ Len(rx.failures) = 1 /\ rx.calls = 1
    /\ ~retryCondition(rx.cond, rx.failures[1])
    /\ outcome.error = Some(rx.failures[1])

\* C3. Transparent retry in feature clients: a status fetch surfaces a
\* failure whose transport failures were all retryable (429/500/502/503/504)
\* only after the configured number of transport attempts.
C3_TransparentRetry ==
    ( /\ call.kind \in {"getStatus", "poll", "wait"}
      /\ IsSome(hist.fetchError)
      /\ \A i \in 1..Len(rx.failures) : RetryableTransportFailure(rx.failures[i]) )
    => rx.calls = rx.maxRetries

\* C4. Poll terminal stop: when the callback returns normally, a terminal
\* status is the last status fetched; pollConfirmation has then returned
\* normally, the callback has been invoked once per fetched status, in fetch
\* order, and no further fetch has been issued.  It returns normally only so.
C4_PollTerminalStop ==
    (call.kind = "poll" /\ ~hist.cbThrew) =>
        LET k == Len(hist.fetched) IN
        /\ \A i \in 1..k :
              StatusOf(hist.fetched[i]) \in TerminalStatuses =>
                  /\ i = k
                  /\ pc = "returned"
                  /\ hist.cbLog = StatusesOf(hist.fetched)
                  /\ hist.fetchCount = k
                  /\ rx.pc = "returned"
        /\ (pc = "returned" =>
                k >= 1 /\ StatusOf(hist.fetched[k]) \in TerminalStatuses)

C4_Witness ==
    /\ call.kind = "poll" /\ pc = "returned" /\ ~hist.cbThrew
    /\ StatusesOf(hist.fetched) = <<"pending", "pending", "approved">>
    /\ hist.cbLog = <<"pending", "pending", "approved">>
    /\ hist.fetchCount = 3

C5_Safety ==
    (call.kind = "poll" /\ AllPending /\ Ended) =>
        /\ pc = "thrown"
        /\ outcome.error = Some(PollTimeoutError(call.timeout))
        /\ now - call.startTime >= call.timeout
        /\ (hist.fetchCount - 1) * call.interval < call.timeout
              \/ hist.fetchCount = 0
        /\ hist.fetchCount * (call.interval + FetchLatency) >= call.timeout

\* C5. Poll timeout: while every status fetch returns pending,
\* pollConfirmation ends, and it ends by throwing the confirmation timeout
\* error once the timeout has elapsed, after a number of fetches between
\* timeout / (interval + latency) and timeout / interval rounded up
\* (2 or 3 for timeout 250, interval 100).
C5_PollTimeout ==
    /\ [](C5_Safety)
    /\ (call.kind = "poll") ~> (Ended \/ ~AllPending)

C5_Witness ==
    /\ call.kind = "poll" /\ call.timeout = PollTimeout /\ AllPending
    /\ pc = "thrown" /\ hist.fetchCount = 3
    /\ outcome.error = Some(PollTimeoutError(PollTimeout))

\* C6. Lenient polling: pollConfirmation is aborted by a failed status
\* fetch only when the failure underneath is not a transient one (a network
\* failure or a 5xx response of the transport).
C6_LenientPolling ==
    (call.kind = "poll" /\ pc = "thrown" /\ IsSome(hist.fetchError)) =>
        ~TransientTransportFailure(Get(rx.lastError))

\* C7. A status fetch that raised a non-retryable confirmation error ends
\* pollConfirmation at once: it has thrown that very error, with no callback
\* invocation for the failed fetch, no sleep after it (one sleep per earlier
\* fetch only) and no further fetch.
C7_PollNonRetryablePropagates ==
    ( /\ call.kind = "poll"
      /\ IsSome(hist.fetchError)
      /\ Get(hist.fetchError).cls = "ConfirmationError"
      /\ Get(hist.fetchError).retryable # Some(TRUE) )
    =>  /\ pc = "thrown"
        /\ outcome.error = hist.fetchError
        /\ Len(hist.cbLog) = Len(hist.fetched)
        /\ Len(hist.fetched) = hist.fetchCount - 1
        /\ hist.pollSleeps = hist.fetchCount - 1
        /\ rx.pc = "thrown"

C7_Witness ==
    /\ call.kind = "poll" /\ pc = "thrown"
    /\ hist.fetchCount = 2 /\ hist.cbLog = <<"pending">>
    /\ IsSome(hist.fetchError)
    /\ outcome.error = hist.fetchError
    /\ hist.pollSleeps = 1

\* C8. waitForApproval resolves only on approval: a resolved promise means
\* the last status fetch returned approved and the value is that fetch's
\* record (no earlier fetch was terminal); and, onStatusChange returning
\* normally, a fetch that returned approved resolves the promise.
C8_ResolvesOnlyOnApproval ==
    call.kind = "wait" =>
        LET k == Len(hist.fetched) IN
        /\ (pc = "resolved" =>
                /\ k >= 1
                /\ StatusOf(hist.fetched[k]) = "approved"
                /\ outcome.value = Some(hist.fetched[k])
                /\ outcome.error = None
                /\ \A i \in 1..(k - 1) : StatusOf(hist.fetched[i]) = "pending")
        /\ \A i \in 1..k :
              (StatusOf(hist.fetched[i]) = "approved" /\ ~hist.cbThrew) =>
                  pc = "resolved" /\ i = k

C8_Witness ==
    /\ call.kind = "wait" /\ pc = "resolved"
    /\ StatusesOf(hist.fetched) = <<"pending", "approved">>
    /\ outcome.value = Some(hist.fetched[2])

\* C9. waitForApproval rejection: onStatusChange returning normally, a
\* fetched status of denied, expired or cancelled is the last one fetched;
\* the promise is rejected with a confirmation error whose message names
\* that status, onStatusChange has been invoked once per fetched status, in
\* order, and no further fetch or timer has been issued.
C9_WaitRejection ==
    (call.kind = "wait" /\ ~hist.cbThrew) =>
        LET k == Len(hist.fetched) IN
        \A i \in 1..k :
            StatusOf(hist.fetched[i]) \in {"denied", "expired", "cancelled"} =>
                /\ i = k
                /\ pc = "rejected"
                /\ IsSome(outcome.error)
                /\ Get(outcome.error).cls = "ConfirmationError"
                /\ Includes(Get(outcome.error).message, StatusOf(hist.fetched[i]))
                /\ (call.hasCallback => hist.cbLog = StatusesOf(hist.fetched))
                /\ hist.fetchCount = k
                /\ hist.pollSleeps = k - 1
                /\ \A j \in 1..(k - 1) : StatusOf(hist.fetched[j]) = "pending"

C9_Witness ==
    /\ call.kind = "wait" /\ call.hasCallback /\ pc = "rejected"
    /\ StatusesOf(hist.fetched) = <<"pending", "denied">>
    /\ hist.cbLog = <<"pending", "denied">>
    /\ Includes(Get(outcome.error).message, "denied")

C10_Safety ==
    call.kind = "wait" =>
        /\ hist.settles <= 1
        /\ (hist.settles = 1) = Ended
        /\ (Ended => /\ rx.pc \in {"returned", "thrown"}
                     /\ hist.pollSleeps = hist.fetchCount - 1)
        /\ (AllPending /\ ~hist.cbThrew /\ Ended) =>
              /\ pc = "rejected"
              /\ outcome.error = Some(WaitTimeoutError(call.timeout))
              /\ now - call.startTime >= call.timeout
              /\ hist.fetchCount >= 2 =>
                    (hist.fetchCount - 2) * call.interval < call.timeout

\* C10. waitForApproval timeout: while every status fetch returns pending
\* (and onStatusChange returns normally) the promise settles, by a rejection
\* with the timeout confirmation error, at the first fetch that completes at
\* or after the deadline; the promise is settled exactly once, and once it is
\* settled no fetch is in flight and no timer is left scheduled.
C10_WaitTimeout ==
    /\ [](C10_Safety)
    /\ (call.kind = "wait") ~> (Ended \/ ~AllPending)

C10_Witness ==
    /\ call.kind = "wait" /\ call.timeout = PollTimeout /\ AllPending
    /\ ~hist.cbThrew /\ pc = "rejected" /\ hist.settles = 1
    /\ hist.fetchCount = 3
    /\ outcome.error = Some(WaitTimeoutError(PollTimeout))

-----------------------------------------------------------------------------
(* Fetch history *)

\* The fetch logged at position j comes after a fetch for the same
\* correlation id returned a terminal status
FetchAfterTerminal(j) ==
    /\ hist.log[j].ev = "fetch"
    /\ \E i \in 1..(j - 1) :
         /\ hist.log[i].ev = "status"
         /\ hist.log[i].id = hist.log[j].id
         /\ hist.log[i].status \in TerminalStatuses

\* C11. No fetch after terminal: in pollConfirmation, waitForApproval and
\* pollBatchConfirmations, for any list of correlation ids passed in, once a
\* status fetch has returned a terminal status for a correlation id (and the
\* callback has returned normally), no later status fetch for that id is
\* issued within the same session.
C11_NoFetchAfterTerminal ==
    (call.kind \in {"poll", "wait", "batch"} /\ ~hist.cbThrew) =>
        \A j \in 1..Len(hist.log) : ~FetchAfterTerminal(j)

\* The session reports statuses to a callback of the caller
HasCallback == call.kind = "poll" \/ (call.kind = "wait" /\ call.hasCallback)

\* C12. Every status successfully fetched by pollConfirmation or
\* waitForApproval, terminal or not, is reported to the caller's callback
\* exactly once, in fetch order: the callback call is the very next thing
\* after the fetch's result, so it precedes the loop's stop / resolve / reject
\* decision for that status and the next fetch.
C12_CallbackPerFetch ==
    HasCallback =>
        /\ hist.cbLog = StatusesOf(hist.fetched)
        /\ \A i \in 1..Len(hist.log) :
             /\ hist.log[i].ev = "status" =>
                  /\ i < Len(hist.log)
                  /\ hist.log[i + 1] = [hist.log[i] EXCEPT !.ev = "callback"]
             /\ hist.log[i].ev = "callback" =>
                  /\ i > 1
                  /\ hist.log[i - 1] = [hist.log[i] EXCEPT !.ev = "status"]

C12_Witness ==
    /\ HasCallback /\ Ended
    /\ hist.cbLog = <<"pending", "approved">>
    /\ Len(hist.log) = 6

\* The ids for which a fetch of the session returned a terminal status
TerminalFetchedIds ==
    {hist.log[i].id : i \in {j \in 1..Len(hist.log) :
        hist.log[j].ev = "status" /\ hist.log[j].status \in TerminalStatuses}}

\* record is what a fetch of the session returned for id
FetchedFor(id, record) ==
    \E k \in 1..Len(hist.fetched) :
        hist.fetched[k] = record /\ record.confirmation.correlationId = id

-----------------------------------------------------------------------------
(* Backoff and exhaustion *)

\* C14. Backoff growth: the delay slept after failed attempt a is
\* min(baseDelay * 2^(a-1) * (1 + j), 30000) for a jitter j in [0, 0.1): it is
\* never below min(baseDelay * 2^(a-1), 30000) and never above 30000, and
\* with baseDelay 1000 it lies in [1000, 1100) before attempt 2 and in
\* [2000, 2200) before attempt 3.
C14_BackoffGrowth ==
    \A a \in 1..Len(rx.sleeps) :
        LET e == rx.retryDelay * Pow2(a - 1)
            d == rx.sleeps[a]
        IN  /\ d >= Min(e, 30000)
            /\ d <= 30000
            /\ d < 30000 => (d >= e /\ 10 * d < 11 * e)
            /\ d = 30000 => 11 * e > 10 * 30000
            /\ rx.retryDelay = 1000 =>
                 /\ a = 1 => (1000 <= d /\ d < 1100)
                 /\ a = 2 => (2000 <= d /\ d < 2200)

C14_Witness ==
    /\ rx.retryDelay = 1000
    /\ rx.pc = "inflight" /\ rx.attempt = 3
    /\ rx.sleeps = <<1099, 2100>>

\* Every word of the message part occurs in message
ContainsAll(message, part) == \A i \in 1..Len(part) : Includes(message, part[i])

\* C15. Exhaustion error: when the last allowed attempt fails with an error
\* the retry condition accepts, the executor raises a new error of the base
\* kind, not the underlying one: retryable false, no status code, and a
\* message holding the context label, the attempt count maxRetries and the
\* message of the last underlying error, and of no earlier attempt.
C15_ExhaustionError ==
    (/\ rx.pc = "thrown"
     /\ Len(rx.failures) = rx.maxRetries
     /\ rx.maxRetries >= 1
     /\ AllAccepted(rx)) =>
        LET e == Get(rx.thrown)
            last == rx.failures[rx.maxRetries]
        IN  /\ e.cls = "GovernsAIError"
            /\ \A i \in 1..Len(rx.failures) : e.origin # rx.failures[i].origin
            /\ e.retryable = Some(FALSE)
            /\ e.statusCode = None
            /\ Includes(e.message, rx.context)
            /\ Includes(e.message, ToString(rx.maxRetries))
            /\ ContainsAll(e.message, last.message)
            /\ \A i \in 1..(rx.maxRetries - 1) :
                 ~ContainsAll(e.message, rx.failures[i].message)
            /\ call.kind = "withRetry" => (pc = "thrown" /\ outcome.error = rx.thrown)

C15_Witness ==
    /\ rx.pc = "thrown" /\ rx.maxRetries = 3 /\ Len(rx.failures) = 3
    /\ AllAccepted(rx)
    /\ rx.failures[3].cls = "ConfirmationError"
    /\ rx.failures[3].statusCode = Some(503)
    /\ Get(rx.thrown).cls = "GovernsAIError"

-----------------------------------------------------------------------------
(* Sequencing of attempts *)

RECURSIVE SumOf(_, _)
\* The sum of the first n delays
SumOf(delays, n) == IF n = 0 THEN 0 ELSE SumOf(delays, n - 1) + delays[n]

\* Invocations of the operation that have started and not yet settled
InFlight(r) ==
    r.calls - Len(r.failures) - (IF r.pc = "returned" THEN 1 ELSE 0)

\* C16. Attempts of one withRetry execution are strictly sequential: attempt
\* n+1 starts only after attempt n has failed and the backoff sleep that
\* follows it has completed, so at most one attempt is in flight at any time.
C16_SequentialAttempts ==
    /\ InFlight(rx) \in {0, 1}
    /\ (InFlight(rx) = 1) = (rx.pc = "inflight")
    /\ rx.calls >= 1 =>
         /\ rx.calls = rx.slept + 1
         /\ rx.calls <= Len(rx.failures) + 1
    /\ rx.slept <= Len(rx.sleeps)
    /\ (rx.slept < Len(rx.sleeps)) = (rx.pc = "backoff")
    /\ rx.pc = "backoff" => Len(rx.sleeps) = rx.slept + 1
    /\ call.kind = "withRetry" => now = SumOf(rx.sleeps, rx.slept)

C16_Witness ==
    /\ call.kind = "withRetry"
    /\ rx.pc = "inflight" /\ rx.calls = 3
    /\ Len(rx.failures) = 2 /\ rx.slept = 2
    /\ now = rx.sleeps[1] + rx.sleeps[2]

-----------------------------------------------------------------------------
(* Error classification *)

\* The error built by a factory, also after it was categorized
BuiltError ==
    IF call.kind = "createError" THEN outcome.value
    ELSE IF call.kind = "categorizeError" THEN Some(Get(outcome.value).error)
    ELSE None

\* C17. Error classification by status: an error built by
\* createErrorFromResponse, or by a createXError factory that goes through
\* isRetryableStatus, has retryable = true exactly when its status is one of
\* 429, 500, 502, 503, 504; 401 and 403 responses yield an
\* authentication-kind error with retryable false; 404 and every other 4xx
\* give retryable false.  The flag is a function of the status alone: the
\* message plays no part.
C17_ClassificationByStatus ==
    IsSome(BuiltError) =>
        LET e == Get(BuiltError)
            site == e.origin[1]
            transient == IsSome(e.statusCode)
                           /\ Get(e.statusCode) \in {429, 500, 502, 503, 504}
        IN  /\ site \in {"createErrorFromResponse", "createFeatureError"} =>
                 e.retryable = Some(transient)
            /\ site = "createErrorFromResponse" =>
                 /\ IsSome(e.statusCode)
                 /\ Get(e.statusCode) = Get(e.response).status
                 /\ (Get(e.statusCode) \in {401, 403}) = (e.cls = "AuthenticationError")
                 /\ e.cls \in {"AuthenticationError", "GovernsAIError"}
            /\ site = "createFeatureError" => e.cls \in FeatureErrorClasses

C17_Witness ==
    /\ call.kind = "createError"
    /\ Get(outcome.value).origin[1] = "createErrorFromResponse"
    /\ Get(outcome.value).statusCode = Some(403)
    /\ Get(outcome.value).cls = "AuthenticationError"
    /\ Get(outcome.value).retryable = Some(FALSE)
    /\ Includes(Get(outcome.value).message, "network")

\* The errors HTTPClient.request raised for non-2xx responses in the
\* current status fetch
ResponseErrors ==
    {rx.failures[i] : i \in {j \in 1..Len(rx.failures) :
        rx.failures[j].origin[1] = "request"}}

\* C18. Transport classification: for every non-2xx response the error
\* raised by HTTPClient.request carries the response status and the parsed
\* body, and its retryable flag is true exactly when the status is one of
\* 429, 500, 502, 503, 504.
C18_TransportClassification ==
    \A e \in ResponseErrors :
        /\ IsSome(e.statusCode) /\ IsSome(e.response)
        /\ Get(e.response).status = Get(e.statusCode)
        /\ e.retryable = Some(Get(e.statusCode) \in {429, 500, 502, 503, 504})

\* The category the status of an error stands for
CategoryOfStatus(status) ==
    CASE status = 401 -> "authentication"
      [] status = 403 -> "authorization"
      [] status \in {400, 422} -> "validation"
      [] status = 429 -> "rate_limit"
      [] status >= 500 -> "server_error"
      [] OTHER -> "client_error"

\* C19. categorizeError is total and maps every error of any SDK error kind
\* to exactly one category, determined by its status when it has one: 401 ->
\* authentication, 403 -> authorization, 400/422 -> validation, 429 ->
\* rate_limit, >= 500 -> server_error, other 4xx -> client_error; an error
\* without a status is network or unknown.
C19_CategoryByStatus ==
    call.kind = "categorizeError" =>
        LET e == Get(outcome.value).error
            category == Get(outcome.value).category
        IN  IF IsSome(e.statusCode)
            THEN category = CategoryOfStatus(Get(e.statusCode))
            ELSE category \in {"network", "unknown"}

\* C20. An error surfaced by a feature-client method carries the HTTP status
\* of the underlying failure when there was one, and its retryable flag is
\* true exactly when the underlying failure was retryable (429, 500, 502,
\* 503, 504), so that callers can branch on error.retryable.
C20_SurfacedErrorClassification ==
    (call.kind = "getStatus" /\ pc = "thrown") =>
        LET e == Get(outcome.error)
            underlying == Get(rx.lastError)
        IN  /\ e.statusCode = underlying.statusCode
            /\ e.retryable = Some(/\ IsSome(underlying.statusCode)
                                  /\ Get(underlying.statusCode)
                                        \in {429, 500, 502, 503, 504})

-----------------------------------------------------------------------------
(* Configuration claims (ClientSpec) *)

\* The optional number is given and lies outside [lo, hi]
OutOfRange(o, lo, hi) == IsSome(o) /\ (Get(o) < lo \/ Get(o) > hi)

\* The constructor raised a configuration error and built nothing
ConstructionRefused ==
    /\ sdk.status = "threw"
    /\ IsSome(sdk.error) /\ Get(sdk.error).cls = "GovernsAIError"
    /\ sdk.config = None /\ sdk.httpClient = None /\ sdk.transports = 0
    /\ DOMAIN sdk.feature = {}
    /\ hist.transportCalls = 0

\* C22. Config range validation: constructing a GovernsAIClient with retries
\* outside [0, 10] or with timeout outside [1000, 300000] raises a
\* configuration error during construction, before any transport call is
\* made.
C22_ConfigRangeValidation ==
    (/\ sdk.status # "none"
     /\ \/ OutOfRange(Get(sdk.input)["retries"], 0, 10)
        \/ OutOfRange(Get(sdk.input)["timeout"], 1000, 300000)) =>
        ConstructionRefused

\* C23. Config identity validation: constructing a GovernsAIClient raises a
\* configuration error whenever apiKey is empty and whenever orgId is empty,
\* each independently of the other, and no client or transport is created.
C23_ConfigIdentityValidation ==
    (/\ sdk.status # "none"
     /\ \/ Get(sdk.input)["apiKey"] = Some("")
        \/ Get(sdk.input)["orgId"] = Some("")) =>
        ConstructionRefused

\* The last updateConfig, and whether it raised
LastUpdate == Get(sdk.lastUpdate)
UpdateRaised == IsSome(sdk.lastUpdate) /\ IsSome(LastUpdate.error)
UpdateSucceeded == IsSome(sdk.lastUpdate) /\ ~IsSome(LastUpdate.error)

\* C24. updateConfig is all-or-nothing on error: when the merged
\* configuration is invalid (for example newConfig sets apiKey to ''),
\* updateConfig raises a GovernsAIError and leaves the client's config, its
\* transport and every feature client's config exactly as they were.
C24_UpdateConfigAllOrNothing ==
    IsSome(sdk.lastUpdate) =>
        /\ (\/ LastUpdate.newConfig["apiKey"] = Some("")
            \/ OutOfRange(LastUpdate.newConfig["retries"], 0, 10)) => UpdateRaised
        /\ UpdateRaised =>
             /\ Get(LastUpdate.error).cls = "GovernsAIError"
             /\ sdk.config = LastUpdate.before.config
             /\ sdk.httpClient = LastUpdate.before.httpClient
             /\ sdk.feature = LastUpdate.before.feature

C24_Witness ==
    /\ UpdateRaised
    /\ LastUpdate.newConfig["apiKey"] = Some("")
    /\ Get(sdk.config)["apiKey"] = Some("key-1")
    /\ \A name \in DOMAIN sdk.feature : sdk.feature[name].httpClient.n = 1

\* The fields a transport is built from
TransportFields == {"baseUrl", "apiKey", "timeout"}

\* The transport was built from the client's current configuration
BuiltFromCurrent(httpClient) ==
    \A f \in TransportFields : httpClient.config[f] = Get(sdk.config)[f]

\* C25. updateConfig takes effect: after updateConfig(newConfig) succeeds,
\* getConfig() returns the old configuration overridden by newConfig, and
\* every feature client uses the new configuration for all calls started
\* afterwards: its retry policy comes from the new retries and retryDelay and
\* its requests go through a transport built from the new baseUrl, apiKey
\* and timeout.
C25_UpdateConfigTakesEffect ==
    (UpdateSucceeded /\ IsSome(sdk.lastCall)
       /\ Get(sdk.lastCall).updates = sdk.updates) =>
        LET c == Get(sdk.lastCall)
        IN  /\ \A f \in ConfigFields :
                 Get(sdk.config)[f] = IF IsSome(LastUpdate.newConfig[f])
                                      THEN LastUpdate.newConfig[f]
                                      ELSE Get(LastUpdate.before.config)[f]
            /\ c.client = "getConfig" => outcome.value = sdk.config
            /\ c.client \in DOMAIN sdk.feature =>
                 /\ IsSome(c.policy) =>
                      /\ Get(c.policy).maxRetries =
                           OrElse(Get(sdk.config)["retries"], 3)
                      /\ Get(c.policy).retryDelay =
                           OrElse(Get(sdk.config)["retryDelay"], 1000)
                 /\ BuiltFromCurrent(c.httpClient)
                 /\ IsSome(c.platformHttp) => BuiltFromCurrent(Get(c.platformHttp))

\* C26. Policy snapshot: an in-flight retry execution keeps the maxRetries,
\* retryDelay and retry condition it captured when it started; an
\* updateConfig that interleaves with it, during an attempt or a backoff
\* wait, changes neither its remaining attempts nor its later delays, and
\* only executions started afterwards see the new values.
C26_PolicySnapshot ==
    call.kind = "clientWithRetry" =>
        LET c == Get(sdk.lastCall)
            p == Get(c.policy)
        IN  /\ c.updates = sdk.updates =>
                 /\ p.maxRetries = OrElse(Get(sdk.config)["retries"], 3)
                 /\ p.retryDelay = OrElse(Get(sdk.config)["retryDelay"], 1000)
            /\ rx.maxRetries = p.maxRetries
            /\ rx.retryDelay = p.retryDelay
            /\ rx.cond = "GovernsAIError"
            /\ rx.calls <= p.maxRetries
            /\ (rx.pc \in {"inflight", "backoff"}) => rx.attempt <= p.maxRetries
            /\ (rx.pc = "thrown" /\ Get(rx.lastError).retryable = Some(TRUE)) =>
                 rx.calls = p.maxRetries
            /\ \A a \in 1..Len(rx.sleeps) :
                 LET e == p.retryDelay * Pow2(a - 1)
                     d == rx.sleeps[a]
                 IN  d >= Min(e, 30000) /\ 10 * d <= 11 * e

C26_Witness ==
    /\ call.kind = "clientWithRetry"
    /\ rx.pc = "backoff" /\ rx.attempt = 2
    /\ sdk.updates > Get(sdk.lastCall).updates
    /\ UpdateSucceeded
    /\ Get(sdk.config)["retries"] = Some(1)
    /\ Get(sdk.config)["retryDelay"] = Some(2000)
    /\ Get(Get(sdk.lastCall).policy) = [maxRetries |-> 3, retryDelay |-> 1000]
    /\ rx.sleeps = <<1000, 2198>>

-----------------------------------------------------------------------------
(* Feature-client claims (FeatureSpec) *)

\* The error kind of the client the called method belongs to
OwnErrorKind ==
    CASE feat.method = "checkRequest" -> "PrecheckError"
      [] feat.method = "executeTool" -> "ToolError"
      [] feat.method = "createConfirmation" -> "ConfirmationError"

\* The call the method made through withRetry failed: with a plain Error,
\* with a transport error, or by exhausting the retries
UnderlyingFailure == rx.pc = "thrown" /\ IsSome(rx.thrown)

\* C21. Feature clients raise their own error kind: whatever makes the
\* underlying call fail (a plain network Error, a transport error with a
\* status code, retry exhaustion), the method rejects with the error kind of
\* its client: checkRequest of PrecheckClient with PrecheckError, the
\* ConfirmationClient methods with ConfirmationError, the ToolClient methods
\* with ToolError.
C21_OwnErrorKind ==
    /\ (call.kind = "method" /\ feat.phase = "done") =>
         /\ UnderlyingFailure <=> pc = "thrown"
         /\ pc = "thrown" =>
              /\ IsSome(outcome.error)
              /\ Get(outcome.error).cls = OwnErrorKind
              /\ ContainsAll(Get(outcome.error).message, Get(rx.thrown).message)
    /\ \A i \in 1..Len(feat.itemLog) :
         IsSome(feat.itemLog[i].error) =>
             Get(feat.itemLog[i].error).cls = OwnErrorKind

C21_Witness ==
    /\ call.kind = "method" /\ feat.method = "checkRequest"
    /\ pc = "thrown"
    /\ Get(rx.thrown).cls = "Error"
    /\ Get(rx.thrown).message = <<"Network error">>
    /\ Get(outcome.error).cls = "PrecheckError"
    /\ Get(outcome.error).message = <<"Precheck request failed:", "Network error">>

\* The error marker a batch method puts in the place of a failed item
IsErrorMarker(result, message) ==
    /\ result.kind = CASE feat.method = "checkRequest" ->
                            "decision block, metadata.error true"
                       [] feat.method = "executeTool" -> "success false, error"
                       [] feat.method = "createConfirmation" ->
                            "success false, status error"
    /\ ContainsAll(result.message, message)

\* C27. Batch error isolation: executeBatchTools, checkBatch and
\* createBatchConfirmations never raise because an item failed; they return
\* exactly one result per input, in input order; a failed item's result is an
\* error marker (success false with an error message; decision 'block' with
\* metadata.error true; status 'error') and the others are what their calls
\* returned.
C27_BatchErrorIsolation ==
    call.kind = "batchMethod" =>
        /\ pc # "thrown"
        /\ Len(feat.results) = Len(feat.itemLog)
        /\ \A i \in 1..Len(feat.itemLog) :
             LET item == feat.itemLog[i]
             IN  /\ item.input = feat.items[i]
                 /\ IsSome(item.error) =>
                      IsErrorMarker(feat.results[i], Get(item.error).message)
                 /\ ~IsSome(item.error) =>
                      /\ feat.results[i] = Get(item.value)
                      /\ feat.results[i].kind = "response"
                      /\ feat.results[i].n = item.post
        /\ feat.phase = "done" =>
             /\ pc = "returned"
             /\ outcome.value = Some(feat.results)
             /\ Len(feat.results) = Len(feat.items)

C27_Witness ==
    /\ call.kind = "batchMethod" /\ feat.method = "checkRequest"
    /\ pc = "returned"
    /\ Len(feat.items) = 2
    /\ feat.results[1].kind = "response"
    /\ feat.results[2].kind = "decision block, metadata.error true"
    /\ feat.results[2].message =
         <<"Precheck failed:", "Precheck request failed:", "Network error">>

\* The request checkRequest is working on, as its caller gave it
CallerRequest == Get(feat.request)

\* The lookups started for the request, those settled so far, and how
LookupsStarted == {feat.tasks[i] : i \in 1..Len(feat.tasks)}
LookupsSettled == {feat.settled[i].lookup : i \in 1..Len(feat.settled)}
OutcomeOf(lookup) ==
    LET i == CHOOSE k \in 1..Len(feat.settled) : feat.settled[k].lookup = lookup
    IN  feat.settled[i].out

\* The request field a lookup that succeeded with a value fills in
Filled(lookup) ==
    CASE lookup = "policies" -> Some("transformed platform policy_config")
      [] lookup = "tool" -> Some("platform tool_config")
      [] lookup = "budget" -> Some("platform budget_context")

LookupField(lookup) ==
    CASE lookup = "policies" -> "policy_config"
      [] lookup = "tool" -> "tool_config"
      [] lookup = "budget" -> "budget_context"

\* C28. Best-effort enrichment: for every subset of failing lookups
\* (policies, tool metadata, budget context), checkRequest still issues the
\* precheck request, with only the fields of the lookups that succeeded
\* filled in; a lookup failure never makes checkRequest fail.
C28_BestEffortEnrichment ==
    (feat.method = "checkRequest" /\ IsSome(feat.request)) =>
        /\ LookupsSettled = LookupsStarted => Len(feat.sent) >= 1
        /\ \A i \in 1..Len(feat.sent) :
             \A lookup \in LookupsStarted :
               /\ (lookup \in LookupsSettled /\ OutcomeOf(lookup) = "value") =>
                     feat.sent[i][LookupField(lookup)] = Filled(lookup)
               /\ (lookup \in LookupsSettled /\ OutcomeOf(lookup) = "rejected") =>
                     feat.sent[i][LookupField(lookup)] = None
        /\ (~feat.batch /\ pc = "thrown") =>
             /\ Len(feat.sent) >= 1
             /\ rx.failures # <<>>
             /\ Get(rx.lastError).origin[1] \in {"fetch", "request", "operation"}

C28_Witness ==
    /\ feat.method = "checkRequest" /\ ~feat.batch
    /\ pc = "returned" /\ IsSome(outcome.value)
    /\ LookupsStarted = {"policies", "tool", "budget"}
    /\ OutcomeOf("policies") = "rejected"
    /\ OutcomeOf("tool") = "value"
    /\ OutcomeOf("budget") = "rejected"
    /\ feat.sent[1]["tool_config"] = Some("platform tool_config")
    /\ feat.sent[1]["policy_config"] = None
    /\ feat.sent[1]["budget_context"] = None

\* C29. Enrichment join: the lookups checkRequest needs (at most three) are
\* all started before any is awaited and may complete in any order; the
\* precheck POST is issued only after every started lookup has settled, and
\* the enriched request is the same whatever the completion order.
C29_EnrichmentJoin ==
    feat.method = "checkRequest" =>
        /\ Len(feat.tasks) <= 3
        /\ feat.phase = "enrich" =>
             /\ feat.pending # {}
             /\ feat.pending \cup LookupsSettled = LookupsStarted
             /\ feat.pending \cap LookupsSettled = {}
             /\ feat.sent = <<>>
        /\ \A i \in 1..Len(feat.sent) :
             /\ feat.sentPending[i] = {}
             /\ LookupsSettled = LookupsStarted
             /\ Len(feat.settled) = Len(feat.tasks)
             /\ \A lookup \in LookupsStarted :
                  feat.sent[i][LookupField(lookup)] =
                      IF OutcomeOf(lookup) = "value" THEN Filled(lookup) ELSE None

C29_Witness ==
    /\ feat.method = "checkRequest"
    /\ feat.tasks = <<"policies", "tool", "budget">>
    /\ Len(feat.settled) = 3
    /\ feat.settled[1].lookup = "budget"
    /\ feat.settled[2].lookup = "tool"
    /\ feat.settled[3].lookup = "policies"
    /\ \A lookup \in LookupsStarted : OutcomeOf(lookup) = "value"
    /\ Len(feat.sent) = 1

\* The fields of the request that enrichment has no business with
OtherFields == {"tool", "raw_text"}

\* C30. Caller-supplied fields win: enrichment never overwrites a
\* policy_config, tool_config or budget_context the caller supplied; a lookup
\* is issued only for an absent field (the tool lookup only when a tool is
\* named); the other fields are unchanged; when nothing is missing no lookup
\* is issued and the request is sent unchanged.
C30_CallerFieldsWin ==
    (feat.method = "checkRequest" /\ IsSome(feat.request)) =>
        /\ "policies" \in LookupsStarted <=> CallerRequest["policy_config"] = None
        /\ "budget" \in LookupsStarted <=> CallerRequest["budget_context"] = None
        /\ "tool" \in LookupsStarted <=>
             (CallerRequest["tool_config"] = None /\ CallerRequest["tool"] # None)
        /\ ~feat.batch => feat.gets = Len(feat.tasks)
        /\ \A i \in 1..Len(feat.sent) :
             /\ \A f \in {"policy_config", "tool_config", "budget_context"} :
                  CallerRequest[f] # None => feat.sent[i][f] = CallerRequest[f]
             /\ \A f \in OtherFields : feat.sent[i][f] = CallerRequest[f]
             /\ feat.sent[i]["userId"] = feat.userId
             /\ LookupsStarted = {} =>
                  \A f \in RequestFields \ {"userId"} :
                     feat.sent[i][f] = CallerRequest[f]

C30_Witness ==
    /\ feat.method = "checkRequest" /\ ~feat.batch
    /\ CallerRequest["policy_config"] = Some("caller policy_config")
    /\ CallerRequest["tool"] = Some("weather")
    /\ feat.tasks = <<"tool", "budget">>
    /\ feat.gets = 2
    /\ Len(feat.sent) = 1
    /\ feat.sent[1]["policy_config"] = Some("caller policy_config")
    /\ feat.sent[1]["tool_config"] = Some("platform tool_config")
    /\ feat.sent[1]["budget_context"] = Some("platform budget_context")
    /\ feat.sent[1]["userId"] = Some("user-1")

-----------------------------------------------------------------------------
(* Retry executor: warnings and success after retries (Spec) *)

\* The execution ended by giving up: every allowed attempt failed
Exhausted(r) ==
    r.pc = "thrown" /\ IsSome(r.thrown) /\ Get(r.thrown).origin[1] = "withRetry"

\* C31. Retry warnings: withRetry emits exactly one warning event per retry,
\* before the backoff sleep that precedes the retry, carrying the failed
\* attempt's index, the total attempts, the delay, the context label and the
\* error; an execution that exhausts N attempts emits exactly N-1 warnings
\* (none after the last attempt), and one that succeeds or fails
\* non-retryably on attempt 1 emits none.
C31_RetryWarnings ==
    /\ Len(rx.warns) = Len(rx.sleeps)
    /\ Len(rx.warns) = rx.slept + (IF rx.pc = "backoff" THEN 1 ELSE 0)
    /\ rx.pc = "inflight" => Len(rx.warns) = rx.calls - 1
    /\ \A i \in 1..Len(rx.warns) :
         /\ rx.warns[i].attempt = i
         /\ rx.warns[i].total = rx.maxRetries
         /\ rx.warns[i].delay = rx.sleeps[i]
         /\ rx.warns[i].context = rx.context
         /\ rx.warns[i].error = rx.failures[i]
    /\ (Exhausted(rx) /\ rx.calls >= 1) =>
         /\ rx.calls = rx.maxRetries
         /\ Len(rx.warns) = rx.maxRetries - 1
    /\ (rx.pc \in {"returned", "thrown"} /\ rx.calls = 1) => rx.warns = <<>>

C31_Witness ==
    /\ call.kind = "withRetry"
    /\ Exhausted(rx)
    /\ rx.maxRetries = 3 /\ rx.calls = 3
    /\ Len(rx.warns) = 2
    /\ rx.warns[2].attempt = 2 /\ rx.warns[2].total = 3
    /\ rx.warns[2].delay = 2100
    /\ rx.warns[2].error.origin = <<"operation", 2>>

\* C33. Success after retries: if the operation fails with retryable errors
\* on attempts 1..k-1 and succeeds on attempt k with k <= maxRetries,
\* withRetry returns the result of attempt k, having invoked the operation
\* exactly k times and slept exactly k-1 times, and raises no error; the
\* earlier failures are not reported to the caller.
C33_SuccessAfterRetries ==
    call.kind = "withRetry" =>
        /\ rx.pc = "returned" =>
             /\ rx.calls <= rx.maxRetries
             /\ rx.result = Some(<<"result", rx.calls>>)
             /\ Len(rx.failures) = rx.calls - 1
             /\ rx.slept = rx.calls - 1
             /\ Len(rx.sleeps) = rx.calls - 1
             /\ rx.thrown = None /\ rx.raised = 0
             /\ pc = "returned"
             /\ outcome = [value |-> rx.result, error |-> None]
        /\ (rx.pc = "thrown" /\ rx.calls < rx.maxRetries) =>
             \/ Get(rx.lastError).retryable # Some(TRUE)
             \/ rx.cond \notin Superclasses(Get(rx.lastError).cls)

C33_Witness ==
    /\ call.kind = "withRetry"
    /\ pc = "returned"
    /\ rx.maxRetries = 3 /\ rx.calls = 3
    /\ Len(rx.failures) = 2 /\ rx.slept = 2
    /\ outcome.value = Some(<<"result", 3>>)

-----------------------------------------------------------------------------
(* Polling: cancellation, deadlines, failures (Spec) *)

\* The last entry of hist.log with the given event
LastIndexOf(ev) ==
    IF \E i \in 1..Len(hist.log) : hist.log[i].ev = ev
    THEN CHOOSE i \in 1..Len(hist.log) :
            /\ hist.log[i].ev = ev
            /\ \A j \in (i + 1)..Len(hist.log) : hist.log[j].ev # ev
    ELSE 0

\* C32. Cancellation from the callback: a caller can stop pollConfirmation
\* early by throwing from the status callback; after the callback throws, no
\* further status fetch is issued and pollConfirmation fails with the thrown
\* exception.
C32_CallbackCancels ==
    (call.kind = "poll" /\ hist.cbThrew) =>
        /\ pc = "thrown"
        /\ IsSome(outcome.error)
        /\ Get(outcome.error).origin[1] = "callback"
        /\ LastIndexOf("fetch") < LastIndexOf("callback")

\* Time since the call started
Elapsed == now - call.startTime

\* A status fetch has just been issued and no time has passed since
FetchJustIssued ==
    /\ pc = "awaiting" /\ rx.pc = "inflight" /\ rx.calls = 1
    /\ hist.log # <<>> /\ hist.log[Len(hist.log)].ev = "fetch"

\* C34. pollConfirmation checks the deadline before every status fetch: no
\* fetch is started once the elapsed time since the start is >= timeout, so
\* with timeout 0 it issues zero fetches, never invokes the callback and
\* raises the timeout error; an in-flight fetch or sleep is never
\* interrupted, so the call can overrun the deadline by at most one fetch
\* plus one interval.
C34_PollDeadlineBeforeFetch ==
    call.kind = "poll" =>
        /\ FetchJustIssued => Elapsed < call.timeout
        /\ call.timeout = 0 =>
             /\ hist.fetchCount = 0 /\ hist.cbLog = <<>>
             /\ pc = "thrown"
             /\ Get(outcome.error).cls = "ConfirmationError"
             /\ ContainsAll(Get(outcome.error).message,
                            <<"Confirmation polling timed out after", "0">>)
             /\ Elapsed = 0
        /\ call.timeout > 0 => Elapsed < call.timeout + FetchLatency + call.interval
        /\ (pc = "thrown" /\ Includes(Get(outcome.error).message,
                                      "Confirmation polling timed out after")) =>
             Elapsed >= call.timeout

C34_Witness ==
    /\ call.kind = "poll"
    /\ call.timeout = PollTimeout
    /\ pc = "thrown"
    /\ Includes(Get(outcome.error).message, "Confirmation polling timed out after")
    /\ hist.fetchCount >= 2
    /\ Elapsed > call.timeout

\* The status the last successful fetch returned
LastFetchedStatus == hist.fetched[Len(hist.fetched)].confirmation.status

\* C35. waitForApproval always issues at least one status fetch whatever the
\* timeout is (including 0), and the status returned by a fetch takes
\* precedence over the deadline: an approved status resolves and another
\* terminal status rejects with the status error even when the deadline has
\* already passed; the timeout rejection occurs only after a fetch that
\* returned a non-terminal status.
C35_WaitStatusBeforeDeadline ==
    call.kind = "wait" =>
        /\ hist.fetchCount >= 1
        /\ (pc \in {"resolved", "rejected", "sleeping"}
              /\ hist.fetchError = None /\ ~hist.cbThrew) =>
             /\ hist.fetched # <<>>
             /\ LastFetchedStatus = "approved" =>
                  pc = "resolved" /\ outcome.value = Some(hist.fetched[Len(hist.fetched)])
             /\ LastFetchedStatus \in {"denied", "expired", "cancelled"} =>
                  /\ pc = "rejected"
                  /\ Get(outcome.error).message =
                       <<"Confirmation was", LastFetchedStatus, "instead of approved">>
             /\ LastFetchedStatus = "pending" =>
                  \/ pc = "sleeping" /\ Elapsed < call.timeout
                  \/ /\ pc = "rejected" /\ Elapsed >= call.timeout
                     /\ Includes(Get(outcome.error).message,
                                 "Confirmation approval timed out after")

C35_Witness ==
    /\ call.kind = "wait"
    /\ call.timeout = 0
    /\ Elapsed = FetchLatency
    /\ hist.fetchCount = 1
    /\ LastFetchedStatus = "denied"
    /\ pc = "rejected"
    /\ Includes(Get(outcome.error).message, "Confirmation was")

\* C36. waitForApproval does not tolerate fetch failures: as soon as a
\* status fetch (or the onStatusChange callback) throws, the promise rejects
\* with that error and no further fetch is scheduled, whether or not the
\* failure was transient and however much of the timeout remains.
C36_WaitFailsFast ==
    (call.kind = "wait" /\ (IsSome(hist.fetchError) \/ hist.cbThrew)) =>
        /\ pc = "rejected"
        /\ hist.settles = 1
        /\ IsSome(hist.fetchError) => outcome.error = hist.fetchError
        /\ hist.cbThrew => Get(outcome.error).origin[1] = "callback"
        /\ hist.log[Len(hist.log)].ev \in {"failed", "callback"}
        /\ hist.pollSleeps = hist.fetchCount - 1

C36_Witness ==
    /\ call.kind = "wait"
    /\ call.timeout = PollTimeout
    /\ pc = "rejected"
    /\ hist.fetchCount = 2
    /\ Elapsed < call.timeout
    /\ IsSome(hist.fetchError)
    /\ Get(rx.lastError).statusCode = Some(503)
    /\ outcome.error = hist.fetchError

\* The indexes of hist.log holding the given event
EventsOf(ev) == {i \in 1..Len(hist.log) : hist.log[i].ev = ev}

\* C37. pollBatchConfirmations isolates per-id failures: when the status
\* fetch for one id fails in a tick, the failure is logged, the callback is
\* not invoked for that id in that tick, the id stays pending and is fetched
\* again on the next tick, the remaining pending ids of the tick are still
\* fetched, and the batch call itself does not raise.
C37_BatchFailureIsolation ==
    call.kind = "batch" =>
        /\ pc # "thrown" /\ outcome.error = None
        /\ \A i \in EventsOf("failed") :
             /\ hist.log[i - 1] = Event("fetch", hist.log[i].id, "")
             /\ i < Len(hist.log) => hist.log[i + 1].ev = "fetch"
             /\ i = Len(hist.log) =>
                  /\ pc \in {"sleeping", "returned"}
                  /\ batch.idx = Len(batch.pendingIds)
                  /\ batch.pendingIds[batch.idx] = hist.log[i].id
        /\ \A id \in DOMAIN batch.results :
             \E i \in EventsOf("status") :
                 hist.log[i].id = id /\ hist.log[i].status \in TerminalStatuses
        /\ pc = "awaiting" =>
             /\ batch.idx \in 1..Len(batch.pendingIds)
             /\ \A k \in 1..batch.idx :
                  \E i \in EventsOf("fetch") : hist.log[i].id = batch.pendingIds[k]
             /\ batch.idx = 1 =>
                  \A k \in 1..Len(batch.ids) :
                     batch.ids[k] \notin DOMAIN batch.results =>
                        \E m \in 1..Len(batch.pendingIds) :
                            batch.pendingIds[m] = batch.ids[k]

C37_Witness ==
    /\ call.kind = "batch"
    /\ batch.ids = <<"a", "b">>
    /\ Len(hist.log) >= 6
    /\ hist.log[1] = Event("fetch", "a", "")
    /\ hist.log[2] = Event("failed", "a", "")
    /\ hist.log[3] = Event("fetch", "b", "")
    /\ hist.log[4] = Event("status", "b", "approved")
    /\ hist.log[6] = Event("fetch", "a", "")
    /\ batch.pendingIds = <<"a">>
    /\ pc = "awaiting"

-----------------------------------------------------------------------------
(* Policy construction (ClientSpec) *)

\* The configuration of the client with retries and retryDelay replaced
WithRetries(retries, retryDelay) ==
    [Get(sdk.config) EXCEPT !["retries"] = retries, !["retryDelay"] = retryDelay]

\* The value a policy field takes for a configured optional number
PolicyValue(o, fallback) ==
    IF o = None \/ o = Some(0) THEN fallback ELSE Get(o)

-----------------------------------------------------------------------------
(* The two retry executors (EquivSpec) *)

\* What a caller can tell about an optional error
Observed(error) ==
    IF error = None THEN None
    ELSE Some([cls |-> Get(error).cls, message |-> Get(error).message,
               statusCode |-> Get(error).statusCode,
               retryable |-> Get(error).retryable])

\* What can be observed of an execution: where it stands, the invocations
\* made, the sleeps started and completed, the warnings, the result, the error
Observation(r) ==
    [pc |-> r.pc, calls |-> r.calls, sleeps |-> r.sleeps, slept |-> r.slept,
     warns |-> r.warns, result |-> r.result, thrown |-> Observed(r.thrown),
     raised |-> r.raised]

\* C39. The two retry executors, withRetry in utils.ts and withRetry in
\* errors.ts, are observationally equivalent: for every policy and every
\* sequence of operation outcomes they perform the same number of attempts,
\* the same backoff sleeps and warnings, and end with the same result or the
\* same error.
C39_ExecutorsEquivalent ==
    call.kind = "both" => Observation(rx2) = Observation(rx)

C39_Witness ==
    /\ call.kind = "both"
    /\ rx.pc = "thrown" /\ rx2.pc = "thrown"
    /\ rx.maxRetries = 3 /\ rx2.calls = 3 /\ rx.calls = 3
    /\ Len(rx2.warns) = 2 /\ Len(rx2.sleeps) = 2 /\ rx2.sleeps = rx.sleeps
    /\ Includes(Get(rx2.thrown).message, "failed after")
    /\ Get(rx2.thrown).origin # Get(rx.thrown).origin

====
